---------------------------- MODULE Spec2Model ----------------------------
(***************************************************************************)
(* The request cache-policy subsystem (CachePolicy) of the data layer:     *)
(* per-store invalidation bookkeeping, the hard/soft expiration queries,   *)
(* the header-driven expiration check isExpired and the Cache-Control      *)
(* header parser, modelled from src/packages/ember/package.json (the file  *)
(* holds the request-utils source after the package manifest).             *)
(*                                                                         *)
(* Representation.  JavaScript strings that the code inspects character by *)
(* character (Cache-Control and Age header values) are sequences of        *)
(* one-character strings.  Header values the code hands to the platform's  *)
(* Date parser are tagged: HttpDate(t) is a well-formed date string of the *)
(* instant t (milliseconds), Garbage a string the Date parser rejects.     *)
(* JavaScript numbers are Num(n) or NaN; a call either returns a boolean   *)
(* (Ret(b)) or throws (Throw).                                             *)
(***************************************************************************)
EXTENDS Integers, Sequences, FiniteSets, TLC

(***************************************************************************)
(* Values                                                                  *)
(***************************************************************************)
\* headers.get(name) answers null for a header that is not there
Absent == <<"absent">>
HttpDate(t) == <<"date", t>>
Garbage == <<"garbage">>

Num(n) == <<"num", n>>
NaN == <<"nan">>
JsTrue == <<"true">>

IsNaN(x) == x = NaN
\* a >= b on JavaScript numbers: every comparison with NaN is false
Geq_Exact(a, b) == ~IsNaN(a) /\ ~IsNaN(b) /\ a[2] = b[2]
Geq(a, b) == ~IsNaN(a) /\ ~IsNaN(b) /\ a[2] >= b[2]
Add(a, b) == IF IsNaN(a) \/ IsNaN(b) THEN NaN ELSE Num(a[2] + b[2])
Sub(a, b) == IF IsNaN(a) \/ IsNaN(b) THEN NaN ELSE Num(a[2] - b[2])
Mul(a, b) == IF IsNaN(a) \/ IsNaN(b) THEN NaN ELSE Num(a[2] * b[2])
\* if (x) on a number: NaN and 0 are falsy
TruthyNum(x) == ~IsNaN(x) /\ x[2] # 0
\* if (x) on a string-or-null header value: null and "" are falsy
TruthyStr(v) == v # Absent /\ v # <<>>

Ret(b) == [threw |-> FALSE, value |-> b]
Throw == [threw |-> TRUE, value |-> FALSE]

\* new Date(value).getTime()
DateGetTime(v) == IF Len(v) = 2 /\ v[1] = "date" THEN Num(v[2]) ELSE NaN

(***************************************************************************)
(* parseInt                                                                *)
(***************************************************************************)
DigitChars == <<"0", "1", "2", "3", "4", "5", "6", "7", "8", "9">>
IsDigit(c) == \E i \in DOMAIN DigitChars : DigitChars[i] = c
DigitVal(c) == (CHOOSE i \in DOMAIN DigitChars : DigitChars[i] = c) - 1
WhiteSpace == {" ", "\t", "\n"}

RECURSIVE SkipSpace(_)
SkipSpace(s) == IF Len(s) > 0 /\ s[1] \in WhiteSpace THEN SkipSpace(Tail(s)) ELSE s

RECURSIVE DigitPrefix(_, _, _)
\* the value of the longest prefix of digits of s, NaN when s starts with none
DigitPrefix(s, acc, seen) ==
    IF Len(s) > 0 /\ IsDigit(s[1])
    THEN DigitPrefix(Tail(s), acc * 10 + DigitVal(s[1]), TRUE)
    ELSE IF seen THEN Num(acc) ELSE NaN

\* parseInt that stops after the first digit
ParseInt_FirstDigit(str) ==
    IF Len(str) > 0 /\ IsDigit(str[1]) THEN Num(DigitVal(str[1])) ELSE NaN

\* Number.parseInt(s) / parseInt(s, 10) on strings without a 0x prefix
ParseInt(str) ==
    LET s == SkipSpace(str)
        signed == Len(s) > 0 /\ s[1] \in {"-", "+"}
        mag == DigitPrefix(IF signed THEN Tail(s) ELSE s, 0, FALSE)
    IN  IF IsNaN(mag) THEN NaN
        ELSE IF signed /\ s[1] = "-" THEN Num(0 - mag[2]) ELSE mag

(***************************************************************************)
(* Cache-Control parsing                                                   *)
(***************************************************************************)
KeyMaxAge == <<"m", "a", "x", "-", "a", "g", "e">>
KeySMaxAge == <<"s", "-", "m", "a", "x", "a", "g", "e">>
KeyStaleIfError ==
    <<"s", "t", "a", "l", "e", "-", "i", "f", "-", "e", "r", "r", "o", "r">>
KeyStaleWhileRevalidate ==
    <<"s", "t", "a", "l", "e", "-", "w", "h", "i", "l", "e", "-",
      "r", "e", "v", "a", "l", "i", "d", "a", "t", "e">>
NUMERIC_KEYS == {KeyMaxAge, KeySMaxAge, KeyStaleIfError, KeyStaleWhileRevalidate}

\* a parse answers [threw, obj]; obj maps each directive to JsTrue or a number
EmptyObj == [k \in {} |-> JsTrue]
SetKey(obj, k, v) == [x \in (DOMAIN obj) \cup {k} |-> IF x = k THEN v ELSE obj[x]]
GetKey(obj, k) == IF k \in DOMAIN obj THEN obj[k] ELSE NaN
Parsed(obj) == [threw |-> FALSE, obj |-> obj]
ParseThrew == [threw |-> TRUE, obj |-> EmptyObj]

\* the two assertions throw in a debug build and are stripped otherwise
parseCacheControlValueThrows(stringToParse, debug) ==
    LET parsedValue == ParseInt(stringToParse)
    IN  debug /\ (IsNaN(parsedValue) \/ parsedValue[2] < 0)

\* parseCacheControlValue that lets a negative number through
parseCacheControlValue_KeepsNegative(stringToParse) ==
    LET parsedValue == ParseInt(stringToParse)
    IN  IF IsNaN(parsedValue) THEN Num(0) ELSE parsedValue

parseCacheControlValue(stringToParse) ==
    LET parsedValue == ParseInt(stringToParse)
    IN  IF IsNaN(parsedValue) \/ parsedValue[2] < 0 THEN Num(0) ELSE parsedValue

\* cacheControlValue[key] = NUMERIC_KEYS.has(key) ? parseCacheControlValue(value) : true
StoreDirective(obj, key, value) ==
    SetKey(obj, key, IF key \in NUMERIC_KEYS THEN parseCacheControlValue(value) ELSE JsTrue)

StoreThrows(key, value, debug) ==
    key \in NUMERIC_KEYS /\ parseCacheControlValueThrows(value, debug)

RECURSIVE ParseLoop(_, _, _, _, _, _, _)
\* the body of the for loop over header, at 1-based position i
ParseLoop(header, i, key, value, isParsingKey, obj, debug) ==
    IF i > Len(header) THEN Parsed(obj)
    ELSE
      LET char == header[i]
          last == i = Len(header)
      IN
      IF char = ","
      THEN IF debug /\ ((isParsingKey /\ key \in NUMERIC_KEYS)
                        \/ (i > 1 /\ header[i - 1] = "="))
           THEN ParseThrew
           ELSE IF StoreThrows(key, value, debug) THEN ParseThrew
           ELSE ParseLoop(header, i + 1, <<>>, <<>>, TRUE,
                          StoreDirective(obj, key, value), debug)
      ELSE IF char = "="
      THEN IF debug /\ last THEN ParseThrew
           ELSE IF last
                THEN IF StoreThrows(key, value, debug) THEN ParseThrew
                     ELSE Parsed(StoreDirective(obj, key, value))
                ELSE ParseLoop(header, i + 1, key, value, FALSE, obj, debug)
      ELSE IF char \in WhiteSpace
      THEN ParseLoop(header, i + 1, key, value, isParsingKey, obj, debug)
      ELSE
        LET key2 == IF isParsingKey THEN Append(key, char) ELSE key
            value2 == IF isParsingKey THEN value ELSE Append(value, char)
        IN  IF last
            THEN IF StoreThrows(key2, value2, debug) THEN ParseThrew
                 ELSE Parsed(StoreDirective(obj, key2, value2))
            ELSE ParseLoop(header, i + 1, key2, value2, isParsingKey, obj, debug)

\* the function the LRU cache memoizes
CACHE_CONTROL_CACHE(header, debug) ==
    ParseLoop(header, 1, <<>>, <<>>, TRUE, EmptyObj, debug)

parseCacheControl(header, debug) == CACHE_CONTROL_CACHE(header, debug)

\* String(n) for a non-negative integer
RECURSIVE ToDecimal(_)
ToDecimal(n) ==
    IF n < 10 THEN <<DigitChars[n + 1]>>
    ELSE Append(ToDecimal(n \div 10), DigitChars[(n % 10) + 1])

\* a directive key[=value] of a Cache-Control header; a flag has no value
Directive(key, value) == [key |-> key, value |-> value]
RenderDirective(d) == IF d.value = Absent THEN d.key ELSE d.key \o <<"=">> \o d.value

\* the header made of directives ds joined by commas, with the whitespace pad
\* before directive j when pos = 2j - 1, after it when pos = 2j
RenderPiece(ds, j, pos, pad) ==
    (IF pos = 2 * j - 1 THEN pad ELSE <<>>)
    \o RenderDirective(ds[j])
    \o (IF pos = 2 * j THEN pad ELSE <<>>)
RECURSIVE RenderFrom(_, _, _, _)
RenderFrom(ds, j, pos, pad) ==
    IF j > Len(ds) THEN <<>>
    ELSE (IF j > 1 THEN <<",">> ELSE <<>>)
         \o RenderPiece(ds, j, pos, pad) \o RenderFrom(ds, j + 1, pos, pad)
Render(ds, pos, pad) == RenderFrom(ds, 1, pos, pad)

(***************************************************************************)
(* Configuration, requests and cached documents                            *)
(***************************************************************************)
\* response.status >= 200 && response.status < 400
StatusOkMin == 200
StatusOkMax == 400
\* (maxAge - ageValue) * 1000: header ages are seconds, the clock milliseconds
MsPerSecond == 1000

\* PolicyConfig.  constraints.headers.present is FALSE when constraints or
\* constraints.headers is not given; constraints.isExpired names the custom
\* predicate, "none" when it is not given.
MkConfig(soft, hard, dto, hasHeaders, cc, ex, xwd, pred) ==
    [apiCacheSoftExpires |-> soft,
     apiCacheHardExpires |-> hard,
     disableTestOptimization |-> dto,
     constraints |->
       [headers |-> [present |-> hasHeaders, CacheControl |-> cc,
                     Expires |-> ex, XWarpDriveExpires |-> xwd],
        isExpired |-> pred]]

\* a cache entry as peekRequest answers it: exists is FALSE for undefined,
\* response FALSE for a document without a response, headers FALSE for a
\* response without headers
MkDoc(date, age, cc, ex, xwd) ==
    [exists |-> TRUE, response |-> TRUE, headers |-> TRUE, date |-> date,
     age |-> age, cacheControl |-> cc, expires |-> ex, xWarpDriveExpires |-> xwd]
NoHeadersDoc ==
    [MkDoc(Absent, Absent, Absent, Absent, Absent) EXCEPT !.headers = FALSE]
NoResponseDoc == [NoHeadersDoc EXCEPT !.response = FALSE]
NoDoc == [NoResponseDoc EXCEPT !.exists = FALSE]

\* the custom predicates that are configured: each answers "true", "false" or
\* "null" for a document
Predicates == {"none", "alwaysNull", "alwaysTrue", "alwaysFalse"}
PredicateVerdict(pred, request) ==
    CASE pred = "alwaysTrue" -> "true"
      [] pred = "alwaysFalse" -> "false"
      [] OTHER -> "null"

(***************************************************************************)
(* isExpired                                                               *)
(***************************************************************************)
\* Each check answers a one-element sequence holding its answer when it decides,
\* and the empty sequence when it does not apply.

\* the predicate's null taken for a verdict of false
PredicateCheck_NullDecides(request, cfg) ==
    LET pred == cfg.constraints.isExpired
        result == PredicateVerdict(pred, request)
    IN  IF pred # "none" THEN <<Ret(result = "true")>> ELSE <<>>

\* if (constraints?.isExpired) { result = constraints.isExpired(request); ... }
PredicateCheck(request, cfg) ==
    LET pred == cfg.constraints.isExpired
        result == PredicateVerdict(pred, request)
    IN  IF pred # "none" /\ result # "null" THEN <<Ret(result = "true")>> ELSE <<>>

\* the Expires check taking a missing header for an expired response
ExpiresCheck_MissingIsExpired(request, cfg, nowv) ==
    IF cfg.constraints.headers.Expires
    THEN IF TruthyStr(request.expires)
         THEN <<Ret(Geq(Num(nowv), DateGetTime(request.expires)))>>
         ELSE <<Ret(TRUE)>>
    ELSE <<>>

\* check for X-WarpDrive-Expires
XWarpDriveExpiresCheck(request, cfg, nowv) ==
    IF cfg.constraints.headers.XWarpDriveExpires /\ TruthyStr(request.xWarpDriveExpires)
    THEN <<Ret(Geq(Num(nowv), DateGetTime(request.xWarpDriveExpires)))>>
    ELSE <<>>

\* check for Cache-Control
CacheControlCheck(request, cfg, nowv, debug) ==
    IF cfg.constraints.headers.CacheControl
       /\ TruthyStr(request.cacheControl) /\ TruthyStr(request.age)
       /\ TruthyStr(request.date)
    THEN
      LET parsed == parseCacheControl(request.cacheControl, debug)
          cacheControlValue == parsed.obj
          \* cacheControlValue['max-age'] || cacheControlValue['s-maxage']
          maxAge == IF TruthyNum(GetKey(cacheControlValue, KeyMaxAge))
                    THEN GetKey(cacheControlValue, KeyMaxAge)
                    ELSE GetKey(cacheControlValue, KeySMaxAge)
          ageValue == ParseInt(request.age)
          ageOk == ~IsNaN(ageValue) /\ ageValue[2] >= 0
          dateValue == DateGetTime(request.date)
          expirationTime == Add(dateValue, Mul(Sub(maxAge, ageValue), Num(MsPerSecond)))
      IN  IF parsed.threw THEN <<Throw>>
          ELSE IF ~TruthyNum(maxAge) THEN <<>>
          ELSE IF debug /\ ~ageOk THEN <<Throw>>
          ELSE IF ageOk THEN <<Ret(Geq(Num(nowv), expirationTime))>>
          ELSE <<>>
    ELSE <<>>

\* the Expires check made whether or not its flag is enabled
ExpiresCheck_FlagIgnored(request, cfg, nowv) ==
    IF TruthyStr(request.expires)
    THEN <<Ret(Geq(Num(nowv), DateGetTime(request.expires)))>>
    ELSE <<>>

\* check for Expires
ExpiresCheck(request, cfg, nowv) ==
    IF cfg.constraints.headers.Expires /\ TruthyStr(request.expires)
    THEN <<Ret(Geq(Num(nowv), DateGetTime(request.expires)))>>
    ELSE <<>>

\* the header checks with Expires consulted before Cache-Control
HeaderChecks_ExpiresFirst(request, cfg, nowv, debug) ==
    IF ~cfg.constraints.headers.present THEN <<>>
    ELSE
      LET x == XWarpDriveExpiresCheck(request, cfg, nowv)
          c == CacheControlCheck(request, cfg, nowv, debug)
          e == ExpiresCheck(request, cfg, nowv)
      IN  IF Len(x) > 0 THEN x ELSE IF Len(e) > 0 THEN e ELSE c

\* if (constraints?.headers) { ... }: the first of the three checks that decides
HeaderChecks(request, cfg, nowv, debug) ==
    IF ~cfg.constraints.headers.present THEN <<>>
    ELSE
      LET x == XWarpDriveExpiresCheck(request, cfg, nowv)
          c == CacheControlCheck(request, cfg, nowv, debug)
          e == ExpiresCheck(request, cfg, nowv)
      IN  IF Len(x) > 0 THEN x ELSE IF Len(c) > 0 THEN c ELSE e

\* the threshold with the soft duration substituted in every build
HardThreshold_AlwaysSoft(cfg, testing) == cfg.apiCacheSoftExpires

\* the threshold of the Date check when the test environment is ignored
HardThreshold_AlwaysHard(cfg, testing) == cfg.apiCacheHardExpires

\* let expirationTime = config.apiCacheHardExpires; if (TESTING) { ... }
HardThreshold(cfg, testing) ==
    IF testing /\ ~cfg.disableTestOptimization
    THEN cfg.apiCacheSoftExpires
    ELSE cfg.apiCacheHardExpires

\* the Date check taking a missing Date header for a fresh response
DateCheck_MissingDateFresh(request, cfg, nowv, testing) ==
    IF ~TruthyStr(request.date) THEN Ret(FALSE)
    ELSE Ret(Geq(Num(nowv),
                 Add(DateGetTime(request.date), Num(HardThreshold(cfg, testing)))))

\* check for Date
DateCheck(request, cfg, nowv, testing) ==
    IF ~TruthyStr(request.date) THEN Ret(TRUE)
    ELSE Ret(Geq(Num(nowv),
                 Add(DateGetTime(request.date), Num(HardThreshold(cfg, testing)))))

\* isExpired taking a response without headers for a fresh one
isExpired_NoHeadersFresh(request, cfg, nowv, testing, debug) ==
    LET p == PredicateCheck(request, cfg)
        h == HeaderChecks(request, cfg, nowv, debug)
    IN  IF Len(p) > 0 THEN p[1]
        ELSE IF ~request.headers THEN Ret(FALSE)
        ELSE IF Len(h) > 0 THEN h[1]
        ELSE DateCheck(request, cfg, nowv, testing)

isExpired(request, cfg, nowv, testing, debug) ==
    LET p == PredicateCheck(request, cfg)
        h == HeaderChecks(request, cfg, nowv, debug)
    IN  IF Len(p) > 0 THEN p[1]
        ELSE IF ~request.headers THEN Ret(TRUE)
        ELSE IF Len(h) > 0 THEN h[1]
        ELSE DateCheck(request, cfg, nowv, testing)

(***************************************************************************)
(* State                                                                   *)
(***************************************************************************)
VARIABLES
    now,       \* Date.now(), milliseconds
    TESTING,   \* build-time flag of @warp-drive/build-config/env
    DEBUG,     \* debug build: assert() throws; it is stripped otherwise
    config,    \* CachePolicy.config
    stores,    \* CachePolicy._stores: store -> {invalidated, types}
    cache,     \* store.cache: store -> identifier -> cached document
    notified,  \* store -> identifier -> notify(identifier, 'invalidated') calls
               \* made on store.notifications by the last call
    identity,  \* the store's identifier cache: its tokens and its lookup tables
    last       \* the last call made, its arguments and its result

vars == <<now, TESTING, DEBUG, config, stores, cache, notified, identity, last>>

\* the clock stops at MaxClock
MaxClock == 3000
\* request.cacheOptions.types holds at most MaxCacheTypes entries
MaxCacheTypes == 2

Stores == {"s1", "s2"}
Ids == {"d1", "d2"}
Types == {"t1", "t2"}
\* a null identifier
NoId == "null"

\* request.cacheOptions.types: not given, or an array of types
TypeLists ==
    {Absent} \cup UNION {[1..n -> Types] : n \in 0..MaxCacheTypes}

\* ImmutableRequestInfo: op, records (the types of the record identifiers, Absent
\* when not given) and cacheOptions.types
MkRequest(op, records, types) == [op |-> op, records |-> records, types |-> types]
NoRequest == MkRequest("none", Absent, Absent)
\* Response | ResponseInfo | null
MkResponse(status) == [present |-> TRUE, status |-> status]
NoResponse == [present |-> FALSE, status |-> 0]

Range(seq) == {seq[i] : i \in DOMAIN seq}
ListOf(v) == IF v = Absent THEN <<>> ELSE v

\* new CachePolicy(config) before it ran, and the config argument when none is passed
NotConstructed == [constructed |-> FALSE]
MissingConfig == [present |-> FALSE]

\* a resource id that is null or not given, and a lid that is not given; lids are
\* told apart by what produced them: the caller, the generation strategy from a
\* type and an id, or the generation strategy for the n-th token of the cache
NullId == "null"
NoLid == [kind |-> "none", type |-> "none", id |-> "none", n |-> 0]
MkLid(kind, type, id, n) == [kind |-> kind, type |-> type, id |-> id, n |-> n]
\* resource data handed to the identifier cache: type, id and lid
MkResource(type, id, lid) == [type |-> type, id |-> id, lid |-> lid]
NoResource == MkResource("none", NullId, NoLid)
\* a cache key that is null or not given, and the request descriptor read by the
\* document bucket: method, url and cacheOptions.key
NoKey == "null"
MkRequestInfo(method, url, key) == [method |-> method, url |-> url, key |-> key]
NoRequestInfo == MkRequestInfo("none", "none", NoKey)

\* the last call made; again: it repeats the call made just before;
\* arg: the argument of a constructor call; header, parsed: the argument and the
\* outcome of a parseCacheControl call, directives: what the header was written from;
\* resource, info: the argument of an identifier lookup or update, token: the
\* token it returned or was given (0: none), key: the document key, generated:
\* the generation strategy was called, seen: the id the update strategy found on
\* the token; pc, pending: the statement of the forEach body of
\* invalidateRequestsForType that runs next for id (0: no loop is running) and
\* the identifiers the loop has yet to visit
NoCall ==
    [op |-> "none", store |-> "none", id |-> NoId, type |-> "none",
     request |-> NoRequest, response |-> NoResponse, result |-> Ret(FALSE),
     again |-> FALSE, arg |-> MissingConfig,
     directives |-> <<>>, header |-> <<>>, parsed |-> Parsed(EmptyObj),
     resource |-> NoResource, info |-> NoRequestInfo, token |-> 0,
     key |-> NoKey, generated |-> FALSE, invoked |-> FALSE, seen |-> NullId,
     pc |-> 0, pending |-> {}]
\* an identifier cache that issued no token: the record tokens in the order they
\* were made, the released ones, the lid and the type+id tables, the document
\* tokens in the order they were made and the document table
EmptyIdentity ==
    [identifiers |-> <<>>, released |-> {}, resources |-> <<>>, types |-> <<>>,
     documentIdentifiers |-> <<>>, documents |-> <<>>]
Silent == [s \in Stores |-> [i \in Ids |-> 0]]

(***************************************************************************)
(* CachePolicy                                                             *)
(***************************************************************************)
NewStoreCache == [invalidated |-> {}, types |-> [t \in {} |-> {}]]

\* _getStore(store): the map after the call, which adds the record when missing
\* _getStore that sets a new record whether or not the store has one
getStore_AlwaysNew(map, store) ==
    [s \in (DOMAIN map) \cup {store} |-> IF s = store THEN NewStoreCache ELSE map[s]]
getStore(map, store) ==
    IF store \in DOMAIN map THEN map
    ELSE [s \in (DOMAIN map) \cup {store} |-> IF s = store THEN NewStoreCache ELSE map[s]]

\* the record _getStore(store) answers
storeCacheOf(map, store) == getStore(map, store)[store]

\* a config argument with durations that may be numbers or not
Undefined == <<"undefined">>
Str(n) == <<"string", n>>
MkConfigArg(soft, hard) ==
    [present |-> TRUE, apiCacheSoftExpires |-> soft, apiCacheHardExpires |-> hard]
\* typeof v === 'number'
TypeofNumber(v) == v[1] = "num" \/ v = NaN

\* the assertions that check the hard duration as a string-or-number
AssertionsPass_HardUnchecked(arg) ==
    arg.present /\ TypeofNumber(arg.apiCacheSoftExpires)

\* the three assertions of the constructor hold for its argument
AssertionsPass(arg) ==
    /\ arg.present
    /\ TypeofNumber(arg.apiCacheSoftExpires)
    /\ TypeofNumber(arg.apiCacheHardExpires)

\* new CachePolicy(arg): a failed assertion throws in a debug build and no policy
\* comes to be; the assertions are stripped from other builds
Construct(arg) ==
    /\ config = NotConstructed
    /\ IF DEBUG /\ ~AssertionsPass(arg)
       THEN /\ UNCHANGED <<config, stores>>
            /\ last' = [NoCall EXCEPT !.op = "constructor", !.arg = arg,
                                      !.result = Throw]
       ELSE /\ config' = arg
            /\ stores' = [s \in {} |-> NewStoreCache]
            /\ last' = [NoCall EXCEPT !.op = "constructor", !.arg = arg,
                                      !.result = Ret(TRUE)]
    /\ notified' = Silent
    /\ UNCHANGED <<identity, now, TESTING, DEBUG, cache>>

\* constructor: both durations must be numbers (the model's durations are)
Constructed(cfg) ==
    /\ config = cfg
    /\ stores = [s \in {} |-> NewStoreCache]

\* storeCache.types.get(type), the empty set when the map has no entry
DependentsOf(storeCache, type) ==
    IF type \in DOMAIN storeCache.types THEN storeCache.types[type] ELSE {}

\* invalidation that takes the dependents of every type
InvalidatedForType_EveryType(storeCache, type) ==
    [storeCache EXCEPT !.invalidated =
        @ \cup UNION {storeCache.types[t] : t \in DOMAIN storeCache.types}]

\* invalidation that takes every identifier of the store, registered or not
InvalidatedForType_EveryIdentifier(storeCache, type) ==
    [storeCache EXCEPT !.invalidated = @ \cup Ids]

\* invalidation that takes back the invalidation of dependents already invalidated
InvalidatedForType_Toggle(storeCache, type) ==
    [storeCache EXCEPT !.invalidated =
        (@ \ DependentsOf(storeCache, type)) \cup (DependentsOf(storeCache, type) \ @)]

\* the record after set.forEach((id) => storeCache.invalidated.add(id)) for type
InvalidatedForType(storeCache, type) ==
    [storeCache EXCEPT !.invalidated = @ \cup DependentsOf(storeCache, type)]

RECURSIVE InvalidatedForTypes(_, _)
InvalidatedForTypes(storeCache, types) ==
    IF types = {} THEN storeCache
    ELSE LET t == CHOOSE x \in types : TRUE
         IN  InvalidatedForTypes(InvalidatedForType(storeCache, t), types \ {t})

\* the notify(id, 'invalidated') calls of invalidateRequestsForType for each of types
NotifyCount(storeCache, types, id) ==
    Cardinality({t \in types : id \in DependentsOf(storeCache, t)})

Notifications(store, storeCache, types) ==
    [s \in Stores |-> [i \in Ids |->
        IF s = store THEN NotifyCount(storeCache, types, i) ELSE 0]]

\* invalidateRequest that keeps one invalidated set for all the stores
invalidateRequest_EveryStore(identifier, store) ==
    /\ stores' = [s \in Stores |->
                    [storeCacheOf(stores, s) EXCEPT !.invalidated = @ \cup {identifier}]]
    /\ notified' = Silent
    /\ last' = [NoCall EXCEPT !.op = "invalidateRequest", !.store = store,
                              !.id = identifier,
                              !.again = (/\ last.op = "invalidateRequest"
                                         /\ last.store = store
                                         /\ last.id = identifier)]
    /\ UNCHANGED <<identity, now, TESTING, DEBUG, config, cache>>

\* invalidateRequest that also notifies 'invalidated' for the identifier
invalidateRequest_Notifying(identifier, store) ==
    /\ stores' = [getStore(stores, store) EXCEPT
                    ![store].invalidated = @ \cup {identifier}]
    /\ notified' = [Silent EXCEPT ![store][identifier] = 1]
    /\ last' = [NoCall EXCEPT !.op = "invalidateRequest", !.store = store,
                              !.id = identifier,
                              !.again = (/\ last.op = "invalidateRequest"
                                         /\ last.store = store
                                         /\ last.id = identifier)]
    /\ UNCHANGED <<identity, now, TESTING, DEBUG, config, cache>>

invalidateRequest(identifier, store) ==
    /\ stores' = [getStore(stores, store) EXCEPT
                    ![store].invalidated = @ \cup {identifier}]
    /\ notified' = Silent
    /\ last' = [NoCall EXCEPT !.op = "invalidateRequest", !.store = store,
                              !.id = identifier,
                              !.again = (/\ last.op = "invalidateRequest"
                                         /\ last.store = store
                                         /\ last.id = identifier)]
    /\ UNCHANGED <<identity, now, TESTING, DEBUG, config, cache>>

invalidateRequestsForType(type, store) ==
    LET storeCache == storeCacheOf(stores, store)
    IN  /\ stores' = [getStore(stores, store) EXCEPT
                        ![store] = InvalidatedForType(storeCache, type)]
        /\ notified' = Notifications(store, storeCache, {type})
        /\ last' = [NoCall EXCEPT !.op = "invalidateRequestsForType",
                                  !.store = store, !.type = type,
                                  !.again = (/\ last.op = "invalidateRequestsForType"
                                             /\ last.store = store
                                             /\ last.type = type)]
        /\ UNCHANGED <<identity, now, TESTING, DEBUG, config, cache>>

\* response?.status ?? 0 in [200, 400)
StatusOk(response) ==
    LET statusNumber == IF response.present THEN response.status ELSE 0
    IN  statusNumber >= StatusOkMin /\ statusNumber < StatusOkMax

\* the types of a creation without those of request.cacheOptions.types
CreatedTypes_RecordsOnly(request) == Range(ListOf(request.records))

\* new Set(request.records?.map((r) => r.type)) plus request.cacheOptions?.types
CreatedTypes(request) ==
    Range(ListOf(request.records)) \cup Range(ListOf(request.types))

RECURSIVE Registered_OnlyNewTypes(_, _, _)
\* registration that adds the identifier only to types that have no set yet
Registered_OnlyNewTypes(storeCache, types, identifier) ==
    IF types = <<>> THEN storeCache
    ELSE
      LET type == Head(types)
          after ==
            IF type \in DOMAIN storeCache.types
            THEN [storeCache EXCEPT !.invalidated = @ \ {identifier}]
            ELSE [invalidated |-> storeCache.invalidated,
                  types |-> [t \in (DOMAIN storeCache.types) \cup {type} |->
                               IF t = type THEN {identifier}
                               ELSE storeCache.types[t]]]
      IN  Registered_OnlyNewTypes(after, Tail(types), identifier)

RECURSIVE Registered_ReplacesSet(_, _, _)
\* registration that sets a new dependency set for each type, also when the type
\* has one
Registered_ReplacesSet(storeCache, types, identifier) ==
    IF types = <<>> THEN storeCache
    ELSE
      LET type == Head(types)
          after ==
            [invalidated |-> storeCache.invalidated,
             types |-> [t \in (DOMAIN storeCache.types) \cup {type} |->
                          IF t = type THEN {identifier}
                          ELSE storeCache.types[t]]]
      IN  Registered_ReplacesSet(after, Tail(types), identifier)

RECURSIVE Registered(_, _, _)
\* request.cacheOptions.types.forEach: the record after registering identifier
\* for each type of the list in turn
Registered(storeCache, types, identifier) ==
    IF types = <<>> THEN storeCache
    ELSE
      LET type == Head(types)
          after ==
            IF type \in DOMAIN storeCache.types
            THEN [invalidated |-> storeCache.invalidated \ {identifier},
                  types |-> [storeCache.types EXCEPT ![type] = @ \cup {identifier}]]
            ELSE [invalidated |-> storeCache.invalidated,
                  types |-> [t \in (DOMAIN storeCache.types) \cup {type} |->
                               IF t = type THEN {identifier}
                               ELSE storeCache.types[t]]]
      IN  Registered(after, Tail(types), identifier)

\* the branch of didRequest a call takes
IsCreate(request) == request.op = "createRecord"
Registers(request, identifier) ==
    ~IsCreate(request) /\ identifier # NoId /\ Len(ListOf(request.types)) > 0

\* didRequest whose successful creation also registers its own identifier
didRequest_BothBranches(request, response, identifier, store) ==
    LET storeCache == storeCacheOf(stores, store)
        types == CreatedTypes(request)
        registers == identifier # NoId /\ Len(ListOf(request.types)) > 0
    IN  /\ IF IsCreate(request) /\ StatusOk(response) /\ types # {}
           THEN /\ stores' = [getStore(stores, store) EXCEPT
                                ![store] =
                                  IF registers
                                  THEN Registered(InvalidatedForTypes(storeCache, types),
                                                  request.types, identifier)
                                  ELSE InvalidatedForTypes(storeCache, types)]
                /\ notified' = Notifications(store, storeCache, types)
           ELSE IF ~IsCreate(request) /\ registers
                THEN /\ stores' = [getStore(stores, store) EXCEPT
                                     ![store] = Registered(storeCache, request.types,
                                                           identifier)]
                     /\ notified' = Silent
                ELSE /\ stores' = stores
                     /\ notified' = Silent
        /\ last' = [NoCall EXCEPT !.op = "didRequest", !.store = store,
                                  !.id = identifier, !.request = request,
                                  !.response = response]
        /\ UNCHANGED <<identity, now, TESTING, DEBUG, config, cache>>

didRequest(request, response, identifier, store) ==
    LET storeCache == storeCacheOf(stores, store)
        types == CreatedTypes(request)
    IN  /\ IF IsCreate(request)
           THEN IF StatusOk(response) /\ types # {}
                THEN /\ stores' = [getStore(stores, store) EXCEPT
                                     ![store] = InvalidatedForTypes(storeCache, types)]
                     /\ notified' = Notifications(store, storeCache, types)
                ELSE /\ stores' = stores
                     /\ notified' = Silent
           ELSE IF Registers(request, identifier)
                THEN /\ stores' = [getStore(stores, store) EXCEPT
                                     ![store] = Registered(storeCache, request.types,
                                                           identifier)]
                     /\ notified' = Silent
                ELSE /\ stores' = stores
                     /\ notified' = Silent
        /\ last' = [NoCall EXCEPT !.op = "didRequest", !.store = store,
                                  !.id = identifier, !.request = request,
                                  !.response = response]
        /\ UNCHANGED <<identity, now, TESTING, DEBUG, config, cache>>

\* cache.peekRequest(identifier)
peekRequest(identifier, store) == cache[store][identifier]

\* isHardExpired without the check for a missing cache entry
isHardExpired_NoEntryCheck(identifier, store) ==
    LET storeCache == storeCacheOf(stores, store)
        cached == cache[store][identifier]
    IN  IF identifier \in storeCache.invalidated THEN Ret(TRUE)
        ELSE isExpired(cached, config, now, TESTING, DEBUG)

\* isHardExpired without the check of the invalidated set
isHardExpired_NoInvalidatedCheck(identifier, store) ==
    LET cached == cache[store][identifier]
    IN  IF ~(cached.exists /\ cached.response) THEN Ret(TRUE)
        ELSE isExpired(cached, config, now, TESTING, DEBUG)

\* what isHardExpired(identifier, store) answers in the current state
isHardExpired(identifier, store) ==
    LET storeCache == storeCacheOf(stores, store)
        cached == peekRequest(identifier, store)
    IN  IF identifier \in storeCache.invalidated THEN Ret(TRUE)
        ELSE IF ~(cached.exists /\ cached.response) THEN Ret(TRUE)
        ELSE isExpired(cached, config, now, TESTING, DEBUG)

\* isSoftExpired without the test-environment shortcut
isSoftExpired_NoShortcut(identifier, store) ==
    LET cached == cache[store][identifier]
    IN  IF cached.exists /\ cached.response
        THEN IF ~cached.headers THEN Throw
             ELSE IF ~TruthyStr(cached.date) THEN Ret(TRUE)
             ELSE Ret(Geq(Num(now),
                          Add(DateGetTime(cached.date), Num(config.apiCacheSoftExpires))))
        ELSE Ret(TRUE)

\* isSoftExpired that compares with now > deadline
isSoftExpired_Strict(identifier, store) ==
    LET cached == cache[store][identifier]
    IN  IF TESTING /\ ~config.disableTestOptimization THEN Ret(FALSE)
        ELSE IF cached.exists /\ cached.response
        THEN IF ~cached.headers THEN Throw
             ELSE IF ~TruthyStr(cached.date) THEN Ret(TRUE)
             ELSE Ret(~Geq(Add(DateGetTime(cached.date), Num(config.apiCacheSoftExpires)),
                           Num(now)))
        ELSE Ret(TRUE)

\* what isSoftExpired(identifier, store) answers in the current state;
\* cached.response.headers.get throws when the response has no headers
isSoftExpired(identifier, store) ==
    LET cached == peekRequest(identifier, store)
    IN  IF TESTING /\ ~config.disableTestOptimization THEN Ret(FALSE)
        ELSE IF cached.exists /\ cached.response
        THEN IF ~cached.headers THEN Throw
             ELSE IF ~TruthyStr(cached.date) THEN Ret(TRUE)
             ELSE Ret(Geq(Num(now),
                          Add(DateGetTime(cached.date), Num(config.apiCacheSoftExpires))))
        ELSE Ret(TRUE)

\* invalidateRequestsForType statement by statement.  The body of set.forEach
\* runs its statements in this order for each identifier of the set; notify
\* calls the subscribers of the store before it returns, and a subscriber may
\* ask the policy about the identifier it is told of.
ForEachBody_NotifyFirst == <<"notify", "add">>
ForEachBody == <<"add", "notify">>

\* no call is in the middle of its loop
Idle == last.pc = 0

\* the call up to the loop: the store record is fetched and the loop starts on
\* the dependents of the type, if there are any
BeginInvalidateRequestsForType(type, store) ==
    LET set == DependentsOf(storeCacheOf(stores, store), type) IN
    /\ Idle
    /\ stores' = getStore(stores, store)
    /\ notified' = Silent
    /\ last' = [NoCall EXCEPT !.op = "invalidateRequestsForType",
                              !.store = store, !.type = type,
                              !.pc = IF set = {} THEN 0 ELSE 1,
                              !.pending = set]
    /\ UNCHANGED <<identity, now, TESTING, DEBUG, config, cache>>

\* the loop after statement pc of the body ran for id: the next statement for
\* id, else the first statement for another identifier, else the end
AfterStatement(call, id) ==
    LET pending == call.pending \ {id} IN
    [call EXCEPT !.id = id, !.pending = pending,
                 !.pc = IF call.pc < Len(ForEachBody) THEN call.pc + 1
                        ELSE IF pending = {} THEN 0 ELSE 1]

\* one statement of the body for id, an identifier the loop has yet to visit
\* when the body starts and the identifier of the statement before otherwise:
\* storeCache.invalidated.add(id), or notifications.notify(id, 'invalidated')
\* with a subscriber that calls isHardExpired(id, store) (result: what the
\* subscriber is answered)
ForEachStatement(id) ==
    /\ ~Idle
    /\ IF last.pc = 1 THEN id \in last.pending ELSE id = last.id
    /\ IF ForEachBody[last.pc] = "add"
       THEN /\ stores' = [stores EXCEPT ![last.store].invalidated = @ \cup {id}]
            /\ notified' = notified
            /\ last' = AfterStatement([last EXCEPT !.op = "invalidated.add"], id)
       ELSE /\ stores' = stores
            /\ notified' = [notified EXCEPT ![last.store][id] = @ + 1]
            /\ last' = AfterStatement(
                          [last EXCEPT !.op = "notify",
                                       !.result = isHardExpired(id, last.store)],
                          id)
    /\ UNCHANGED <<identity, now, TESTING, DEBUG, config, cache>>

\* a call of isHardExpired: _getStore adds the store's record when missing
IsHardExpired(identifier, store) ==
    /\ stores' = getStore(stores, store)
    /\ notified' = Silent
    /\ last' = [NoCall EXCEPT !.op = "isHardExpired", !.store = store,
                              !.id = identifier,
                              !.result = isHardExpired(identifier, store)]
    /\ UNCHANGED <<identity, now, TESTING, DEBUG, config, cache>>

\* a call of isSoftExpired
IsSoftExpired(identifier, store) ==
    /\ notified' = Silent
    /\ last' = [NoCall EXCEPT !.op = "isSoftExpired", !.store = store,
                              !.id = identifier,
                              !.result = isSoftExpired(identifier, store)]
    /\ UNCHANGED <<identity, now, TESTING, DEBUG, config, stores, cache>>

\* parseCacheControl(header) called with the header written from directives, with
\* whitespace pad at position pos (0: nowhere)
ParseCacheControl(directives, pos, pad) ==
    /\ last' = [NoCall EXCEPT !.op = "parseCacheControl",
                              !.directives = directives,
                              !.header = Render(directives, pos, pad),
                              !.parsed = parseCacheControl(Render(directives, pos, pad),
                                                           DEBUG)]
    /\ notified' = Silent
    /\ UNCHANGED <<identity, now, TESTING, DEBUG, config, stores, cache>>

(***************************************************************************)
(* Identifier cache                                                        *)
(* The store's identifier cache hands out one token per resource and per   *)
(* cacheable document.  src/ holds the declarations and the documentation  *)
(* of its strategies (src/unnamed/part_001), not its implementation; the   *)
(* operations below follow that documentation and the specification.       *)
(***************************************************************************)
\* the cache issues at most MaxIdentifiers record tokens
MaxIdentifiers == 2

\* a lookup table without the entries of a token (SetKey writes an entry)
WithoutToken(table, token) ==
    [x \in {y \in DOMAIN table : table[y] # token} |-> table[x]]

\* the record tokens that were issued and not released
Live(idc) == (1..Len(idc.identifiers)) \ idc.released

\* the default generation strategy, bucket 'record': the lid of the data when it
\* has one, else a label made of its type and id, else a label no earlier call
\* returned
generateRecord(resource, count) ==
    IF resource.lid # NoLid THEN resource.lid
    ELSE IF resource.id # NullId
    THEN MkLid("resource", resource.type, resource.id, 0)
    ELSE MkLid("new", resource.type, NullId, count)

\* the default generation strategy, bucket 'document': the url of a request whose
\* method is GET or not given, null for any other method
generateDocument_AnyMethod(info) == info.url
generateDocument(info) ==
    IF info.method \in {"none", "GET"} THEN info.url ELSE NoKey

\* the key of a request's document: cacheOptions.key when the request has one (the
\* strategy is then not called), else what the strategy returns
documentKey(info) ==
    IF info.key # NoKey THEN info.key ELSE generateDocument(info)

\* the token a resource is already known by: by its lid, else by its type and id
\* (0: by neither)
peekRecordIdentifier_LidOnly(idc, resource) ==
    IF resource.lid # NoLid /\ resource.lid \in DOMAIN idc.resources
    THEN idc.resources[resource.lid]
    ELSE 0
peekRecordIdentifier(idc, resource) ==
    IF resource.lid # NoLid /\ resource.lid \in DOMAIN idc.resources
    THEN idc.resources[resource.lid]
    ELSE IF resource.id # NullId
            /\ <<resource.type, resource.id>> \in DOMAIN idc.types
    THEN idc.types[<<resource.type, resource.id>>]
    ELSE 0

\* a new token for the resource under the lid, entered in both tables
makeRecordIdentifier(idc, resource, lid) ==
    LET k == Len(idc.identifiers) + 1 IN
    [idc EXCEPT
       !.identifiers =
           Append(@, [lid |-> lid, type |-> resource.type, id |-> resource.id]),
       !.resources = SetKey(@, lid, k),
       !.types = IF resource.id # NullId
                 THEN SetKey(@, <<resource.type, resource.id>>, k)
                 ELSE @]

\* resolution of a resource: (1) its lid, (2) its type and id, (3) the generation
\* strategy, whose label either names a token the cache holds or becomes the lid
\* of a new one
resolveRecord(idc, resource) ==
    LET known == peekRecordIdentifier(idc, resource)
        lid == generateRecord(resource, Len(idc.identifiers) + 1)
    IN  IF known # 0
        THEN [token |-> known, generated |-> FALSE, cache |-> idc]
        ELSE IF lid \in DOMAIN idc.resources
        THEN [token |-> idc.resources[lid], generated |-> TRUE, cache |-> idc]
        ELSE [token |-> Len(idc.identifiers) + 1, generated |-> TRUE,
              cache |-> makeRecordIdentifier(idc, resource, lid)]

\* getOrCreateRecordIdentifier(resource)
getOrCreateRecordIdentifier(resource) ==
    LET r == resolveRecord(identity, resource) IN
    /\ Len(r.cache.identifiers) <= MaxIdentifiers
    /\ identity' = r.cache
    /\ last' = [NoCall EXCEPT !.op = "getOrCreateRecordIdentifier",
                              !.resource = resource, !.token = r.token,
                              !.generated = r.generated]
    /\ notified' = Silent
    /\ UNCHANGED <<now, TESTING, DEBUG, config, stores, cache>>

\* createIdentifierForNewRecord({type}): a token for a record the client makes,
\* without an id; the strategy is given an object with only the type
createIdentifierForNewRecord(type) ==
    LET resource == MkResource(type, NullId, NoLid)
        lid == generateRecord(resource, Len(identity.identifiers) + 1)
    IN  /\ Len(identity.identifiers) < MaxIdentifiers
        /\ identity' = makeRecordIdentifier(identity, resource, lid)
        /\ last' = [NoCall EXCEPT !.op = "createIdentifierForNewRecord",
                                  !.resource = resource,
                                  !.token = Len(identity.identifiers) + 1,
                                  !.generated = TRUE]
        /\ notified' = Silent
        /\ UNCHANGED <<now, TESTING, DEBUG, config, stores, cache>>

\* the release of a token: it leaves both tables
releaseToken(idc, token) ==
    [idc EXCEPT !.released = @ \cup {token},
                !.resources = WithoutToken(@, token),
                !.types = WithoutToken(@, token)]

\* forgetRecordIdentifier(identifier)
forgetRecordIdentifier(token) ==
    /\ token \in Live(identity)
    /\ identity' = releaseToken(identity, token)
    /\ last' = [NoCall EXCEPT !.op = "forgetRecordIdentifier", !.token = token]
    /\ notified' = Silent
    /\ UNCHANGED <<now, TESTING, DEBUG, config, stores, cache>>

\* an update the cache refuses: it would change an assigned id, or it has no id
\* for a token that has none
updateThrows(identifier, id) ==
    \/ identifier.id # NullId /\ id # NullId /\ id # identifier.id
    \/ identifier.id = NullId /\ id = NullId

\* the token that already stands for the type and id a token is about to take
\* (0: none)
detectMerge(idc, token, id) ==
    LET key == <<idc.identifiers[token].type, id>> IN
    IF key \in DOMAIN idc.types /\ idc.types[key] # token
    THEN idc.types[key]
    ELSE 0

\* two tokens found to stand for one resource: the updated token is kept, the
\* other one is released and its lid resolves to the kept token from then on
mergeRecordIdentifiers(idc, kept, abandoned) ==
    LET lids == {l \in DOMAIN idc.resources : idc.resources[l] = abandoned}
        freed == releaseToken(idc, abandoned)
    IN  [freed EXCEPT
           !.resources = [l \in (DOMAIN @) \cup lids |->
                             IF l \in lids THEN kept ELSE freed.resources[l]]]

\* the id given by the update is assigned to a token that has none
assignId(idc, token, id) ==
    IF idc.identifiers[token].id = NullId /\ id # NullId
    THEN [idc EXCEPT !.identifiers[token].id = id,
                     !.types = SetKey(@, <<idc.identifiers[token].type, id>>,
                                        token)]
    ELSE idc

\* updateRecordIdentifier(identifier, data): a refused update changes nothing and
\* calls nothing; otherwise a token that takes the id of another token is merged
\* with it, a missing id is assigned, and then the update strategy is called with
\* the token (seen: the id the strategy finds on it)
updateRecord_Overwrites(idc, token, id) ==
    LET other == IF id # NullId THEN detectMerge(idc, token, id) ELSE 0
        merged == IF other # 0
                  THEN mergeRecordIdentifiers(idc, token, other)
                  ELSE idc
        assigned ==
            IF id # NullId
            THEN [merged EXCEPT
                    !.identifiers[token].id = id,
                    !.types = SetKey(WithoutToken(@, token),
                                       <<idc.identifiers[token].type, id>>, token)]
            ELSE merged
    IN  [threw |-> FALSE, invoked |-> TRUE,
         seen |-> assigned.identifiers[token].id, cache |-> assigned]
updateRecord(idc, token, id) ==
    IF updateThrows(idc.identifiers[token], id)
    THEN [threw |-> TRUE, invoked |-> FALSE, seen |-> NullId, cache |-> idc]
    ELSE LET other == IF id # NullId THEN detectMerge(idc, token, id) ELSE 0
             merged == IF other # 0
                       THEN mergeRecordIdentifiers(idc, token, other)
                       ELSE idc
             assigned == assignId(merged, token, id)
         IN  [threw |-> FALSE, invoked |-> TRUE,
              seen |-> assigned.identifiers[token].id, cache |-> assigned]

updateRecordIdentifier(token, id) ==
    LET u == updateRecord(identity, token, id) IN
    /\ token \in Live(identity)
    /\ identity' = u.cache
    /\ last' = [NoCall EXCEPT
                  !.op = "updateRecordIdentifier", !.token = token,
                  !.resource = MkResource(identity.identifiers[token].type, id,
                                          NoLid),
                  !.result = IF u.threw THEN Throw ELSE Ret(TRUE),
                  !.invoked = u.invoked, !.seen = u.seen]
    /\ notified' = Silent
    /\ UNCHANGED <<now, TESTING, DEBUG, config, stores, cache>>

\* getOrCreateDocumentIdentifier(request): null (token 0) for a request without a
\* key, else the token of the key, made on its first use
resolveDocument(idc, info) ==
    LET key == documentKey(info) IN
    IF key = NoKey
    THEN [token |-> 0, cache |-> idc]
    ELSE IF key \in DOMAIN idc.documents
    THEN [token |-> idc.documents[key], cache |-> idc]
    ELSE [token |-> Len(idc.documentIdentifiers) + 1,
          cache |-> [idc EXCEPT
                       !.documentIdentifiers = Append(@, key),
                       !.documents =
                           SetKey(@, key, Len(idc.documentIdentifiers) + 1)]]

getOrCreateDocumentIdentifier(info) ==
    LET r == resolveDocument(identity, info) IN
    /\ identity' = r.cache
    /\ last' = [NoCall EXCEPT !.op = "getOrCreateDocumentIdentifier",
                              !.info = info, !.token = r.token,
                              !.key = documentKey(info),
                              !.generated = (info.key = NoKey)]
    /\ notified' = Silent
    /\ UNCHANGED <<now, TESTING, DEBUG, config, stores, cache>>

(***************************************************************************)
(* Environment: the clock and the content cache                            *)
(***************************************************************************)
\* time passes
Tick(delta) ==
    /\ now + delta <= MaxClock
    /\ now' = now + delta
    /\ notified' = Silent
    /\ last' = NoCall
    /\ UNCHANGED <<identity, TESTING, DEBUG, config, stores, cache>>

\* the store's cache takes, replaces or drops the document of an identifier
CachePut(identifier, store, doc) ==
    /\ cache[store][identifier] # doc
    /\ cache' = [cache EXCEPT ![store][identifier] = doc]
    /\ notified' = Silent
    /\ last' = NoCall
    /\ UNCHANGED <<identity, now, TESTING, DEBUG, config, stores>>

(***************************************************************************)
(* Inputs                                                                  *)
(***************************************************************************)
CcMaxAge1 == KeyMaxAge \o <<"=", "1">>
CcMaxAge3 == KeyMaxAge \o <<"=", "3">>
CcMaxAge0 == KeyMaxAge \o <<"=", "0">>
CcSMaxAge3 == KeySMaxAge \o <<"=", "3">>
CcMaxAge0SMaxAge1 == CcMaxAge0 \o <<",", " ">> \o KeySMaxAge \o <<"=", "1">>
CcMaxAgeBad == KeyMaxAge \o <<"=", "x">>
CcNoStore == <<"n", "o", "-", "s", "t", "o", "r", "e">>

\* a response that carries only a Date header
DatedDoc(t) == MkDoc(HttpDate(t), Absent, Absent, Absent, Absent)

\* the policies the bookkeeping is exercised with
BookConfigs ==
    {MkConfig(1000, 2000, FALSE, FALSE, FALSE, FALSE, FALSE, "none"),
     MkConfig(1000, 2000, TRUE, TRUE, TRUE, TRUE, TRUE, "alwaysFalse")}

\* the documents the bookkeeping is exercised with
BookDocs == {NoDoc, DatedDoc(0)}

\* the requests didRequest is called with: queries with every cacheOptions.types,
\* creations with and without records and cacheOptions.types
QueryRequests == {MkRequest("query", Absent, tl) : tl \in TypeLists}
CreateRequests ==
    {MkRequest("createRecord", r, tl) : r \in {Absent, <<"t1">>}, tl \in {Absent, <<"t2">>}}
Responses == {NoResponse, MkResponse(199), MkResponse(200), MkResponse(399),
              MkResponse(400)}

\* the policies the expiration checks are exercised with: every combination of
\* header constraints and custom predicate, with and without the test shortcut
HeaderFlagSets ==
    {<<FALSE, FALSE, FALSE, FALSE>>}
    \cup {<<TRUE, cc, ex, xwd>> : cc \in BOOLEAN, ex \in BOOLEAN, xwd \in BOOLEAN}
ExpiryConfigs ==
    {MkConfig(1000, 2000, dto, f[1], f[2], f[3], f[4], pred) :
        dto \in BOOLEAN, f \in HeaderFlagSets,
        pred \in Predicates}

\* the cached documents the expiration checks are exercised with
ExpiryDocs ==
    {NoDoc, NoResponseDoc, NoHeadersDoc,
     MkDoc(Absent, Absent, Absent, Absent, Absent),
     DatedDoc(0), DatedDoc(1000),
     MkDoc(Garbage, Absent, Absent, Absent, Absent),
     \* X-WarpDrive-Expires
     MkDoc(HttpDate(0), Absent, Absent, Absent, HttpDate(1000)),
     MkDoc(HttpDate(0), Absent, Absent, Absent, HttpDate(3000)),
     MkDoc(HttpDate(0), Absent, Absent, Absent, Garbage),
     MkDoc(Absent, Absent, Absent, Absent, HttpDate(1000)),
     \* Cache-Control, Age and Date
     MkDoc(HttpDate(0), <<"0">>, CcMaxAge1, Absent, Absent),
     MkDoc(HttpDate(0), <<"2">>, CcMaxAge1, Absent, Absent),
     MkDoc(HttpDate(0), <<"1">>, CcSMaxAge3, Absent, Absent),
     MkDoc(HttpDate(0), <<"0">>, CcMaxAge0, Absent, Absent),
     MkDoc(HttpDate(0), <<"0">>, CcMaxAge0SMaxAge1, Absent, Absent),
     MkDoc(HttpDate(0), <<"x">>, CcMaxAge1, Absent, Absent),
     MkDoc(HttpDate(0), Absent, CcMaxAge1, Absent, Absent),
     MkDoc(Absent, <<"0">>, CcMaxAge1, Absent, Absent),
     MkDoc(HttpDate(0), <<"0">>, CcNoStore, Absent, Absent),
     MkDoc(HttpDate(0), <<"0">>, CcMaxAgeBad, Absent, Absent),
     MkDoc(HttpDate(3000), <<"2">>, CcMaxAge1, Absent, Absent),
     MkDoc(Garbage, <<"2">>, CcMaxAge1, Absent, Absent),
     \* Expires
     MkDoc(HttpDate(0), Absent, Absent, HttpDate(1000), Absent),
     MkDoc(HttpDate(0), Absent, Absent, HttpDate(3000), Absent),
     MkDoc(HttpDate(0), Absent, Absent, Garbage, Absent),
     MkDoc(Absent, Absent, Absent, HttpDate(1000), Absent),
     \* several headers with different deadlines
     MkDoc(HttpDate(0), <<"0">>, CcMaxAge1, HttpDate(3000), HttpDate(2000)),
     MkDoc(HttpDate(0), <<"0">>, CcMaxAge3, HttpDate(1000), HttpDate(2000)),
     MkDoc(HttpDate(0), <<"0">>, CcMaxAge1, HttpDate(3000), Absent),
     MkDoc(HttpDate(0), <<"0">>, CcMaxAge3, HttpDate(1000), Absent),
     MkDoc(HttpDate(0), Absent, Absent, HttpDate(1000), HttpDate(3000)),
     MkDoc(HttpDate(1000), Absent, Absent, HttpDate(3000), HttpDate(1000))}

(***************************************************************************)
(* Specifications                                                          *)
(***************************************************************************)
Started ==
    /\ now = 0
    /\ cache = [s \in Stores |-> [i \in Ids |-> NoDoc]]
    /\ notified = Silent
    /\ identity = EmptyIdentity
    /\ last = NoCall

\* The invalidation bookkeeping of one store: two documents, two types.
Init ==
    /\ Started
    /\ TESTING \in BOOLEAN
    /\ DEBUG = FALSE
    /\ \E cfg \in BookConfigs : Constructed(cfg)

Next ==
    \/ Tick(2000)
    \/ \E i \in Ids, d \in BookDocs : CachePut(i, "s1", d)
    \/ \E i \in Ids : invalidateRequest(i, "s1")
    \/ \E t \in Types : invalidateRequestsForType(t, "s1")
    \/ \E r \in QueryRequests, i \in Ids \cup {NoId} :
          didRequest(r, MkResponse(200), i, "s1")
    \/ \E r \in CreateRequests, p \in Responses : didRequest(r, p, "d1", "s1")
    \/ \E i \in Ids : IsHardExpired(i, "s1")
    \/ \E i \in Ids : IsSoftExpired(i, "s1")

Spec == Init /\ [][Next]_vars

\* The expiration checks of one document under every policy.
InitExpiry ==
    /\ Started
    /\ TESTING \in BOOLEAN
    /\ DEBUG \in BOOLEAN
    /\ \E cfg \in ExpiryConfigs : Constructed(cfg)

NextExpiry ==
    \/ Tick(1000)
    \/ \E d \in ExpiryDocs : CachePut("d1", "s1", d)
    \/ invalidateRequest("d1", "s1")
    \/ IsHardExpired("d1", "s1")
    \/ IsSoftExpired("d1", "s1")

SpecExpiry == InitExpiry /\ [][NextExpiry]_vars

\* Two cached responses of one store under every combination of header flags.
PairConfigs ==
    {MkConfig(1000, 2000, dto, f[1], f[2], f[3], f[4], "none") :
        dto \in BOOLEAN, f \in HeaderFlagSets}
PairDocs ==
    {DatedDoc(0),
     MkDoc(HttpDate(0), Absent, Absent, Absent, HttpDate(1000)),
     MkDoc(HttpDate(0), Absent, Absent, Absent, HttpDate(3000)),
     MkDoc(HttpDate(0), <<"0">>, CcMaxAge1, Absent, Absent),
     MkDoc(HttpDate(0), <<"0">>, CcMaxAge3, Absent, Absent),
     MkDoc(HttpDate(0), <<"2">>, CcMaxAge1, Absent, Absent),
     MkDoc(HttpDate(0), Absent, Absent, HttpDate(1000), Absent),
     MkDoc(HttpDate(0), Absent, Absent, HttpDate(3000), Absent),
     MkDoc(HttpDate(0), <<"0">>, CcMaxAge1, HttpDate(3000), HttpDate(2000)),
     MkDoc(HttpDate(0), <<"0">>, CcMaxAge3, HttpDate(1000), HttpDate(2000))}

InitPair ==
    /\ Started
    /\ TESTING \in BOOLEAN
    /\ DEBUG = FALSE
    /\ \E cfg \in PairConfigs : Constructed(cfg)

NextPair ==
    \/ Tick(1000)
    \/ \E i \in Ids, d \in PairDocs : CachePut(i, "s1", d)
    \/ \E i \in Ids : IsHardExpired(i, "s1")
    \/ \E i \in Ids : IsSoftExpired(i, "s1")

SpecPair == InitPair /\ [][NextPair]_vars

\* One policy shared by two stores whose caches hold a fresh response for
\* every identifier.
InitStores ==
    /\ now = 0
    /\ cache = [s \in Stores |-> [i \in Ids |-> DatedDoc(0)]]
    /\ notified = Silent
    /\ identity = EmptyIdentity
    /\ last = NoCall
    /\ TESTING \in BOOLEAN
    /\ DEBUG = FALSE
    /\ Constructed(MkConfig(1000, 2000, FALSE, FALSE, FALSE, FALSE, FALSE, "none"))

NextStores ==
    \/ \E i \in Ids, s \in Stores : invalidateRequest(i, s)
    \/ \E s \in Stores : invalidateRequestsForType("t1", s)
    \/ \E i \in Ids, s \in Stores :
          didRequest(MkRequest("query", Absent, <<"t1">>), MkResponse(200), i, s)
    \/ \E s \in Stores :
          didRequest(MkRequest("createRecord", <<"t1">>, Absent), MkResponse(200), "d1", s)
    \/ \E i \in Ids, s \in Stores : IsHardExpired(i, s)

SpecStores == InitStores /\ [][NextStores]_vars

\* Construction with every kind of config argument, and the bookkeeping calls
\* that a constructed policy accepts.
ConfigArgs ==
    {MissingConfig}
    \cup {MkConfigArg(soft, hard) : soft \in {Num(1000), Undefined, Str(1000)},
                                    hard \in {Num(2000), Undefined, Str(2000)}}

InitConstruct ==
    /\ Started
    /\ TESTING \in BOOLEAN
    /\ DEBUG \in BOOLEAN
    /\ config = NotConstructed
    /\ stores = [s \in {} |-> NewStoreCache]

NextConstruct ==
    \/ \E arg \in ConfigArgs : Construct(arg)
    \/ \E i \in Ids, s \in Stores : config # NotConstructed /\ invalidateRequest(i, s)

SpecConstruct == InitConstruct /\ [][NextConstruct]_vars

\* The Cache-Control parser on headers written from lists of directives.
MaxDirectiveValue == 25
KeyNoStore == <<"n", "o", "-", "s", "t", "o", "r", "e">>
KeyPrivate == <<"p", "r", "i", "v", "a", "t", "e">>
NoStore == Directive(KeyNoStore, Absent)
Private == Directive(KeyPrivate, Absent)
NumericDirectives ==
    {Directive(k, ToDecimal(n)) : k \in NUMERIC_KEYS, n \in 0..MaxDirectiveValue}
\* values of a numeric directive that read as no number, as a negative one, and
\* as a number followed by something else
BadValues == {<<"x">>, <<"-", "1">>}
MixedValue == <<"7", "x">>
BadDirectives == {Directive(k, v) : k \in NUMERIC_KEYS, v \in BadValues}
DirectiveLists ==
    {<<d>> : d \in NumericDirectives \cup BadDirectives \cup {NoStore}}
    \cup {<<NoStore, Directive(KeyMaxAge, ToDecimal(n))>> : n \in 0..MaxDirectiveValue}
    \cup {<<Directive(KeyMaxAge, ToDecimal(n)), Directive(KeySMaxAge, <<"3">>), Private>> :
            n \in 0..MaxDirectiveValue}
    \cup {<<Directive(KeyMaxAge, v), Directive(KeySMaxAge, <<"3">>), NoStore>> :
            v \in BadValues \cup {MixedValue}}
    \cup {<<NoStore, Directive(KeySMaxAge, <<"3">>), Directive(KeyStaleIfError, v)>> :
            v \in BadValues \cup {MixedValue}}
PaddedLists ==
    {<<NoStore>>, <<Directive(KeyMaxAge, <<"1">>)>>,
     <<NoStore, Directive(KeyMaxAge, <<"1">>)>>,
     <<Directive(KeyMaxAge, <<"1">>), NoStore>>,
     <<Private, Directive(KeySMaxAge, <<"3">>), NoStore>>}
Pads == {<<" ">>, <<"\t">>, <<"\n">>, <<" ", " ">>}

InitParse ==
    /\ Started
    /\ TESTING = FALSE
    /\ DEBUG \in BOOLEAN
    /\ Constructed(MkConfig(1000, 2000, FALSE, TRUE, TRUE, FALSE, FALSE, "none"))

NextParse ==
    \/ \E ds \in DirectiveLists : ParseCacheControl(ds, 0, <<>>)
    \/ \E ds \in PaddedLists, pos \in 1..6, pad \in Pads :
          pos <= 2 * Len(ds) /\ ParseCacheControl(ds, pos, pad)

SpecParse == InitParse /\ [][NextParse]_vars

\* The identifier cache of one store: records of two types, documents of requests.
\* lookups name a resource by type alone, with an id, or with a lid: one the
\* caller kept from an earlier token, which is also the label the strategy makes
\* for type t1 and id 1
Resources ==
    {MkResource(t, i, l) :
        t \in Types, i \in {NullId, "1"},
        l \in {NoLid, MkLid("resource", "t1", "1", 0)}}
RequestInfos ==
    {MkRequestInfo(m, u, k) :
        m \in {"none", "GET", "POST"}, u \in {"/a"}, k \in {NoKey, "k1"}}

InitIdentity ==
    /\ Started
    /\ TESTING = FALSE
    /\ DEBUG = FALSE
    /\ Constructed(MkConfig(1000, 2000, FALSE, TRUE, TRUE, FALSE, FALSE, "none"))

NextIdentity ==
    \/ \E r \in Resources : getOrCreateRecordIdentifier(r)
    \/ \E t \in Types : createIdentifierForNewRecord(t)
    \/ \E k \in 1..MaxIdentifiers, i \in {NullId, "1", "2"} :
          updateRecordIdentifier(k, i)
    \/ \E k \in 1..MaxIdentifiers : forgetRecordIdentifier(k)
    \/ \E q \in RequestInfos : getOrCreateDocumentIdentifier(q)

SpecIdentity == InitIdentity /\ [][NextIdentity]_vars


\* invalidateRequestsForType statement by statement, on a store whose two
\* documents are cached and fresh, with a subscriber that asks isHardExpired.
InitNotify ==
    /\ InitStores
    /\ ~TESTING

NextNotify ==
    \/ \E i \in Ids, tl \in TypeLists :
          Idle /\ didRequest(MkRequest("query", Absent, tl), MkResponse(200), i, "s1")
    \/ \E t \in Types : BeginInvalidateRequestsForType(t, "s1")
    \/ \E i \in Ids : ForEachStatement(i)

SpecNotify == InitNotify /\ [][NextNotify]_vars

(***************************************************************************)
(* Properties                                                              *)
(***************************************************************************)
\* the invalidated set and the dependency sets of a store, empty while the
\* policy holds no record for it
InvalidatedIn(s) == IF s \in DOMAIN stores THEN stores[s].invalidated ELSE {}
TypeSetIn(s, t) ==
    IF s \in DOMAIN stores /\ t \in DOMAIN stores[s].types THEN stores[s].types[t] ELSE {}
TypeMapIn(s) == [t \in Types |-> TypeSetIn(s, t)]

\* call is a didRequest of a request that is no creation, carrying identifier i and
\* a non-empty cacheOptions.types
RegisteringCall(call, s, i) ==
    /\ call.op = "didRequest" /\ call.store = s /\ call.id = i
    /\ call.request.op # "createRecord"
    /\ call.request.types # Absent /\ Len(call.request.types) > 0

\* call is a didRequest of a createRecord request answered with a status in [200, 400)
SuccessfulCreate(call) ==
    /\ call.op = "didRequest" /\ call.request.op = "createRecord"
    /\ call.response.present
    /\ call.response.status >= 200 /\ call.response.status < 400

\* C1: once an identifier is in a store's invalidated set, it stays there and
\* isHardExpired answers true for it after every step that is not a didRequest of
\* a non-create request carrying that identifier with a non-empty
\* cacheOptions.types, whatever the cache, the configuration and the clock.
C1_InvalidatedStaysHardExpired ==
    /\ [](\A s \in Stores, i \in Ids :
            i \in InvalidatedIn(s) => isHardExpired(i, s) = Ret(TRUE))
    /\ [][\A s \in Stores, i \in Ids :
            (i \in InvalidatedIn(s) /\ ~RegisteringCall(last', s, i))
            => /\ i \in InvalidatedIn(s)'
               /\ isHardExpired(i, s)' = Ret(TRUE)
               /\ (last'.op = "isHardExpired" /\ last'.store = s /\ last'.id = i
                   => last'.result = Ret(TRUE))]_vars

\* an invalidated identifier whose cached response the policy alone would call
\* fresh has been asked for, and the answer was true
C1_Witness ==
    /\ last.op = "isHardExpired" /\ last.id = "d1" /\ last.store = "s1"
    /\ "d1" \in InvalidatedIn("s1")
    /\ cache["s1"]["d1"] = DatedDoc(0)
    /\ isExpired(cache["s1"]["d1"], config, now, TESTING, DEBUG) = Ret(FALSE)
    /\ last.result = Ret(TRUE)

\* C2: after a didRequest of a createRecord request answered with a status in
\* [200, 400), every identifier registered as dependent on a type of
\* request.records or of the request's cacheOptions.types is in the store's
\* invalidated set, and isHardExpired answers true for it.
C2_CreateInvalidatesDependents ==
    SuccessfulCreate(last) =>
      \A t \in Types, i \in Ids :
        (/\ t \in Range(ListOf(last.request.records)) \cup Range(ListOf(last.request.types))
         /\ i \in TypeSetIn(last.store, t))
        => /\ i \in InvalidatedIn(last.store)
           /\ isHardExpired(i, last.store) = Ret(TRUE)

\* a creation named a type only in its cacheOptions.types, and a document that
\* depends on that type and has a fresh cached response is now invalidated
C2_Witness ==
    /\ SuccessfulCreate(last) /\ last.response.status = 399
    /\ last.request.records = Absent /\ last.request.types = <<"t2">>
    /\ "d2" \in TypeSetIn("s1", "t2") /\ "d2" \in InvalidatedIn("s1")
    /\ cache["s1"]["d2"] = DatedDoc(0) /\ now = 0
    /\ notified["s1"]["d2"] = 1

\* C3 (as claimed): after a didRequest of a non-create request with a non-null
\* identifier and a non-empty cacheOptions.types, the identifier is not in the
\* store's invalidated set, whatever the state before the call.
C3_RegistrationClearsInvalidation ==
    \A s \in Stores, i \in Ids :
      RegisteringCall(last, s, i) => i \notin InvalidatedIn(s)

\* C4 (as claimed): after every didRequest that is not a createRecord with a
\* status in [200, 400), a non-null identifier is a member of the dependency set
\* of each type of a non-empty cacheOptions.types.
C4_EveryOtherCallRegisters ==
    (/\ last.op = "didRequest" /\ ~SuccessfulCreate(last)
     /\ last.id # NoId)
    => \A t \in Range(ListOf(last.request.types)) : last.id \in TypeSetIn(last.store, t)

\* C4 (amended): after every didRequest of a request that is not a createRecord
\* operation, a non-null identifier is a member of the dependency set of each type
\* of a non-empty cacheOptions.types; a didRequest of a createRecord request,
\* whatever its status, leaves every dependency set as it was.
C4_NonCreateCallRegisters ==
    /\ [](\A s \in Stores, i \in Ids :
            RegisteringCall(last, s, i)
            => \A t \in Range(last.request.types) : i \in TypeSetIn(s, t))
    /\ [][(last'.op = "didRequest" /\ last'.request.op = "createRecord")
          => \A s \in Stores : TypeMapIn(s)' = TypeMapIn(s)]_vars

\* a query registered its identifier for two types, one that had dependents and
\* one that had none
C4_Witness ==
    /\ RegisteringCall(last, "s1", "d1")
    /\ last.request.types = <<"t1", "t2">>
    /\ TypeSetIn("s1", "t1") = {"d1", "d2"}
    /\ TypeSetIn("s1", "t2") = {"d1"}

\* C5: invalidateRequestsForType(type, store) adds to the store's invalidated set
\* exactly the identifiers registered as dependent on type, notifies 'invalidated'
\* exactly once for each of them and for no other identifier, and leaves the
\* dependency sets as they were; with no identifier registered for the type
\* nothing changes and nothing is notified.
C5_InvalidateForTypeExact ==
    [][\A s \in Stores, t \in Types :
         (last'.op = "invalidateRequestsForType" /\ last'.store = s /\ last'.type = t)
         => /\ InvalidatedIn(s)' = InvalidatedIn(s) \cup TypeSetIn(s, t)
            /\ TypeMapIn(s)' = TypeMapIn(s)
            /\ \A i \in Ids :
                 notified'[s][i] = IF i \in TypeSetIn(s, t) THEN 1 ELSE 0
            /\ \A o \in Stores \ {s} :
                 /\ InvalidatedIn(o)' = InvalidatedIn(o)
                 /\ TypeMapIn(o)' = TypeMapIn(o)
                 /\ \A i \in Ids : notified'[o][i] = 0]_vars

\* a type with one dependent was invalidated while another document depended
\* only on the other type: the first is invalidated and notified once, the
\* second is neither
C5_Witness ==
    /\ last.op = "invalidateRequestsForType" /\ last.type = "t1" /\ last.store = "s1"
    /\ TypeSetIn("s1", "t1") = {"d1"} /\ TypeSetIn("s1", "t2") = {"d2"}
    /\ InvalidatedIn("s1") = {"d1"}
    /\ notified["s1"]["d1"] = 1 /\ notified["s1"]["d2"] = 0

\* the test-environment shortcut: TESTING and not disableTestOptimization
TestShortcut == TESTING /\ ~config.disableTestOptimization

\* identifier i of store s has a cached response and is not invalidated
CleanCached(i, s) ==
    /\ i \notin InvalidatedIn(s)
    /\ cache[s][i].exists /\ cache[s][i].response

\* the custom predicate decides nothing: none is configured, or it answers null
PredicateSilent == config.constraints.isExpired \in {"none", "alwaysNull"}

\* a header constraint is enabled in constraints.headers
XWarpDriveExpiresOn ==
    config.constraints.headers.present /\ config.constraints.headers.XWarpDriveExpires
CacheControlOn ==
    config.constraints.headers.present /\ config.constraints.headers.CacheControl
ExpiresOn ==
    config.constraints.headers.present /\ config.constraints.headers.Expires

\* no enabled header constraint finds the headers it needs on doc
NoConstraintApplies(doc) ==
    /\ ~XWarpDriveExpiresOn \/ doc.xWarpDriveExpires = Absent
    /\ ~CacheControlOn \/ doc.cacheControl = Absent \/ doc.age = Absent
    /\ ~ExpiresOn \/ doc.expires = Absent

\* doc carries a Date header that reads as an instant, DateOf(doc)
Dated(doc) == doc.headers /\ doc.date # Absent /\ doc.date # Garbage
DateOf(doc) == doc.date[2]

\* C6: for every identifier for which peekRequest answers no document, or a
\* document without a response, isHardExpired answers true, whatever the
\* invalidation bookkeeping, the configuration and the clock.
C6_NoEntryHardExpired ==
    \A s \in Stores, i \in Ids :
      ~(cache[s][i].exists /\ cache[s][i].response)
      => /\ isHardExpired(i, s) = Ret(TRUE)
         /\ (last.op = "isHardExpired" /\ last.store = s /\ last.id = i
             => last.result = Ret(TRUE))

\* a document without a response was asked for under a predicate that calls
\* everything fresh, with the identifier not invalidated: the answer was true
C6_Witness ==
    /\ last.op = "isHardExpired" /\ last.store = "s1" /\ last.id = "d1"
    /\ cache["s1"]["d1"] = NoResponseDoc
    /\ "d1" \notin InvalidatedIn("s1")
    /\ config.constraints.isExpired = "alwaysFalse"
    /\ last.result = Ret(TRUE)

\* C7: outside the test shortcut, for a non-invalidated identifier whose cached
\* response has a Date header, with no verdict of the custom predicate and no
\* enabled header constraint applying, isHardExpired answers true if and only if
\* now >= Date + apiCacheHardExpires.
C7_HardExpiryByDate ==
    \A s \in Stores, i \in Ids :
      (/\ ~TestShortcut /\ CleanCached(i, s) /\ PredicateSilent
       /\ Dated(cache[s][i]) /\ NoConstraintApplies(cache[s][i]))
      => LET deadline == DateOf(cache[s][i]) + config.apiCacheHardExpires
         IN  /\ isHardExpired(i, s) = Ret(now >= deadline)
             /\ (last.op = "isHardExpired" /\ last.store = s /\ last.id = i
                 => last.result = Ret(now >= deadline))

\* a response dated exactly apiCacheHardExpires ago was found hard expired
C7_Witness ==
    /\ last.op = "isHardExpired" /\ last.store = "s1" /\ last.id = "d1"
    /\ ~TESTING /\ "d1" \notin InvalidatedIn("s1")
    /\ config.constraints.isExpired = "none"
    /\ cache["s1"]["d1"] = DatedDoc(1000)
    /\ now = 1000 + config.apiCacheHardExpires
    /\ last.result = Ret(TRUE)

\* no constraint is configured: no custom predicate and no header enabled
NoConstraints ==
    /\ config.constraints.isExpired = "none"
    /\ ~XWarpDriveExpiresOn /\ ~CacheControlOn /\ ~ExpiresOn

\* C8: outside the test shortcut, with apiCacheSoftExpires < apiCacheHardExpires
\* and no constraints configured, for a non-invalidated cached response that
\* carries only a Date header: when soft <= now - Date < hard, isHardExpired
\* answers false and isSoftExpired true; when now - Date < soft, both answer false.
C8_SoftBeforeHard ==
    \A s \in Stores, i \in Ids :
      (/\ ~TestShortcut /\ NoConstraints /\ CleanCached(i, s)
       /\ config.apiCacheSoftExpires < config.apiCacheHardExpires
       /\ Dated(cache[s][i]) /\ cache[s][i] = DatedDoc(DateOf(cache[s][i])))
      => LET elapsed == now - DateOf(cache[s][i])
             soft == config.apiCacheSoftExpires
             hard == config.apiCacheHardExpires
         IN  /\ (elapsed >= soft /\ elapsed < hard)
                => /\ isHardExpired(i, s) = Ret(FALSE)
                   /\ isSoftExpired(i, s) = Ret(TRUE)
             /\ elapsed < soft
                => /\ isHardExpired(i, s) = Ret(FALSE)
                   /\ isSoftExpired(i, s) = Ret(FALSE)
             /\ (last.op = "isSoftExpired" /\ last.store = s /\ last.id = i
                 /\ elapsed < hard)
                => last.result = Ret(elapsed >= soft)

\* a response dated exactly apiCacheSoftExpires ago was found stale while
\* isHardExpired answers false for it
C8_Witness ==
    /\ last.op = "isSoftExpired" /\ last.store = "s1" /\ last.id = "d1"
    /\ ~TESTING /\ NoConstraints /\ "d1" \notin InvalidatedIn("s1")
    /\ cache["s1"]["d1"] = DatedDoc(0)
    /\ now = config.apiCacheSoftExpires
    /\ last.result = Ret(TRUE)
    /\ isHardExpired("d1", "s1") = Ret(FALSE)

\* the X-WarpDrive-Expires constraint is enabled and doc carries the header
XWarpDriveExpiresApplies(doc) == XWarpDriveExpiresOn /\ doc.xWarpDriveExpires # Absent
\* the Expires constraint is enabled and doc carries the header
ExpiresApplies(doc) == ExpiresOn /\ doc.expires # Absent
\* the Cache-Control check of doc answers a verdict
CacheControlDecides(doc) ==
    LET c == CacheControlCheck(doc, config, now, DEBUG)
    IN  CacheControlOn /\ Len(c) > 0 /\ ~c[1].threw
\* the Cache-Control constraint is disabled or misses one of its headers on doc
CacheControlMissing(doc) ==
    ~CacheControlOn \/ doc.cacheControl = Absent \/ doc.age = Absent \/ doc.date = Absent

\* the policy with both durations set to zero
ZeroDurations == [config EXCEPT !.apiCacheSoftExpires = 0, !.apiCacheHardExpires = 0]

\* the verdict on other is the given one, also with the other time threshold
SameVerdict(other, verdict) ==
    /\ isExpired(other, config, now, TESTING, DEBUG) = verdict
    /\ isExpired(other, config, now, ~TESTING, DEBUG) = verdict
    /\ isExpired(other, ZeroDurations, now, TESTING, DEBUG) = verdict

\* C9: for a non-invalidated cached response with headers and no decisive custom
\* predicate, the verdict is that of the first applicable check in the order
\* X-WarpDrive-Expires, Cache-Control, Expires, Date + threshold: when
\* X-WarpDrive-Expires applies, the verdict is now >= its time and every response
\* with the same X-WarpDrive-Expires header gets it, whatever its Cache-Control,
\* Age, Expires and Date and the threshold; when it does not apply and the
\* Cache-Control check decides, every response with the same Cache-Control, Age
\* and Date gets the same verdict, whatever its Expires and the threshold; when
\* neither applies and Expires does, the verdict is now >= the Expires time.
C9_FirstApplicableCheckDecides ==
    \A s \in Stores, i \in Ids :
      (CleanCached(i, s) /\ cache[s][i].headers /\ PredicateSilent)
      => LET doc == cache[s][i]
             verdict == isHardExpired(i, s)
         IN  /\ XWarpDriveExpiresApplies(doc)
                => /\ verdict = Ret(Geq(Num(now), DateGetTime(doc.xWarpDriveExpires)))
                   /\ \A other \in ExpiryDocs :
                        (other.headers /\ other.xWarpDriveExpires = doc.xWarpDriveExpires)
                        => SameVerdict(other, verdict)
             /\ (~XWarpDriveExpiresApplies(doc) /\ CacheControlDecides(doc))
                => \A other \in ExpiryDocs :
                     (/\ other.headers /\ ~XWarpDriveExpiresApplies(other)
                      /\ other.cacheControl = doc.cacheControl
                      /\ other.age = doc.age /\ other.date = doc.date)
                     => SameVerdict(other, verdict)
             /\ (/\ ~XWarpDriveExpiresApplies(doc) /\ CacheControlMissing(doc)
                 /\ ExpiresApplies(doc))
                => /\ verdict = Ret(Geq(Num(now), DateGetTime(doc.expires)))
                   /\ SameVerdict(doc, verdict)
             /\ (last.op = "isHardExpired" /\ last.store = s /\ last.id = i)
                => last.result = verdict

\* with every header constraint enabled, a response whose X-WarpDrive-Expires
\* time has passed was found expired although its Expires time has not come
C9_Witness ==
    /\ last.op = "isHardExpired" /\ last.store = "s1" /\ last.id = "d1"
    /\ "d1" \notin InvalidatedIn("s1") /\ config.constraints.isExpired = "none"
    /\ XWarpDriveExpiresOn /\ CacheControlOn /\ ExpiresOn
    /\ cache["s1"]["d1"] =
         MkDoc(HttpDate(0), <<"0">>, CcMaxAge1, HttpDate(3000), HttpDate(2000))
    /\ now = 2000
    /\ last.result = Ret(TRUE)

\* C10: for a non-invalidated identifier with a cached response, when the custom
\* predicate answers true or false isHardExpired answers exactly that, whatever
\* the headers (absent headers included) and the clock; when it answers null,
\* isHardExpired answers as it does with no predicate configured.
C10_PredicateVerdictWins ==
    \A s \in Stores, i \in Ids :
      CleanCached(i, s)
      => LET pred == config.constraints.isExpired
             verdict == isHardExpired(i, s)
             unconfigured == [config EXCEPT !.constraints.isExpired = "none"]
         IN  /\ pred = "alwaysTrue" => verdict = Ret(TRUE)
             /\ pred = "alwaysFalse" => verdict = Ret(FALSE)
             /\ pred = "alwaysNull"
                => verdict = isExpired(cache[s][i], unconfigured, now, TESTING, DEBUG)
             /\ (last.op = "isHardExpired" /\ last.store = s /\ last.id = i)
                => last.result = verdict

\* a response without headers was found not expired because the predicate said so
C10_Witness ==
    /\ last.op = "isHardExpired" /\ last.store = "s1" /\ last.id = "d1"
    /\ "d1" \notin InvalidatedIn("s1")
    /\ config.constraints.isExpired = "alwaysFalse"
    /\ cache["s1"]["d1"] = NoHeadersDoc
    /\ last.result = Ret(FALSE)

\* the directives of doc's Cache-Control header, and whether the header is
\* well formed: a debug build parses it without a failed assertion
DirectivesOf(doc) == parseCacheControl(doc.cacheControl, FALSE).obj
WellFormedCacheControl(doc) == ~parseCacheControl(doc.cacheControl, TRUE).threw
\* doc's Age header reads as a non-negative number of seconds, AgeOf(doc)
AgeValid(doc) ==
    /\ doc.age # Absent /\ ~IsNaN(ParseInt(doc.age)) /\ ParseInt(doc.age)[2] >= 0
AgeOf(doc) == ParseInt(doc.age)[2]
\* doc carries Cache-Control with max-age or s-maxage, a valid Age and a Date
HasFreshnessLifetime(doc) ==
    /\ doc.headers /\ doc.cacheControl # Absent /\ WellFormedCacheControl(doc)
    /\ (KeyMaxAge \in DOMAIN DirectivesOf(doc) \/ KeySMaxAge \in DOMAIN DirectivesOf(doc))
    /\ AgeValid(doc) /\ Dated(doc)
\* the max-age directive when present and otherwise s-maxage, in seconds
MaxAgeOf(doc) ==
    IF KeyMaxAge \in DOMAIN DirectivesOf(doc)
    THEN DirectivesOf(doc)[KeyMaxAge][2]
    ELSE DirectivesOf(doc)[KeySMaxAge][2]

\* C11: with the Cache-Control constraint enabled, no X-WarpDrive-Expires check
\* applying and no verdict of the custom predicate, for a non-invalidated cached
\* response with Cache-Control (max-age or s-maxage), Age and Date headers,
\* isHardExpired answers true if and only if now >= Date + (maxAge - Age) * 1000,
\* maxAge being max-age when present and else s-maxage, max-age=0 included.
C11_CacheControlDeadline ==
    \A s \in Stores, i \in Ids :
      (/\ CleanCached(i, s) /\ PredicateSilent /\ CacheControlOn
       /\ ~XWarpDriveExpiresApplies(cache[s][i])
       /\ HasFreshnessLifetime(cache[s][i]))
      => LET doc == cache[s][i]
             deadline == DateOf(doc) + (MaxAgeOf(doc) - AgeOf(doc)) * MsPerSecond
         IN  isHardExpired(i, s) = Ret(now >= deadline)

\* C12: with the Cache-Control constraint enabled, no X-WarpDrive-Expires check
\* applying and no verdict of the custom predicate, a non-invalidated cached
\* response whose Age exceeds its (positive) max-age is hard expired whatever
\* the value of its Date header.
C12_AgePastMaxAgeExpired ==
    \A s \in Stores, i \in Ids :
      LET doc == cache[s][i]
      IN  (/\ CleanCached(i, s) /\ PredicateSilent /\ CacheControlOn
           /\ ~XWarpDriveExpiresApplies(doc)
           /\ doc.headers /\ doc.cacheControl # Absent /\ WellFormedCacheControl(doc)
           /\ KeyMaxAge \in DOMAIN DirectivesOf(doc)
           /\ AgeValid(doc) /\ doc.date # Absent
           /\ MaxAgeOf(doc) > 0 /\ AgeOf(doc) > MaxAgeOf(doc))
          => isHardExpired(i, s) = Ret(TRUE)

\* the policy with one header constraint switched off
WithoutXWarpDriveExpires == [config EXCEPT !.constraints.headers.XWarpDriveExpires = FALSE]
WithoutCacheControl == [config EXCEPT !.constraints.headers.CacheControl = FALSE]
WithoutExpires == [config EXCEPT !.constraints.headers.Expires = FALSE]
\* what isHardExpired answers for a non-invalidated cached response under cfg
VerdictUnder(cfg, doc) == isExpired(doc, cfg, now, TESTING, DEBUG)

\* C13: for a non-invalidated cached response, an enabled header constraint whose
\* headers are missing (no X-WarpDrive-Expires; no Cache-Control, Age or Date; no
\* Expires) gives no verdict: isHardExpired answers what it answers under the
\* same policy with that constraint's flag disabled.
C13_MissingHeadersFallThrough ==
    \A s \in Stores, i \in Ids :
      CleanCached(i, s)
      => LET doc == cache[s][i]
             verdict == isHardExpired(i, s)
         IN  /\ (XWarpDriveExpiresOn /\ doc.xWarpDriveExpires = Absent)
                => verdict = VerdictUnder(WithoutXWarpDriveExpires, doc)
             /\ (CacheControlOn /\ (doc.cacheControl = Absent \/ doc.age = Absent
                                    \/ doc.date = Absent))
                => verdict = VerdictUnder(WithoutCacheControl, doc)
             /\ (ExpiresOn /\ doc.expires = Absent)
                => verdict = VerdictUnder(WithoutExpires, doc)
             /\ (last.op = "isHardExpired" /\ last.store = s /\ last.id = i)
                => last.result = verdict

\* with all three header constraints enabled, a fresh response that carries only
\* a Date header was found not expired
C13_Witness ==
    /\ last.op = "isHardExpired" /\ last.store = "s1" /\ last.id = "d1"
    /\ "d1" \notin InvalidatedIn("s1") /\ PredicateSilent
    /\ XWarpDriveExpiresOn /\ CacheControlOn /\ ExpiresOn
    /\ cache["s1"]["d1"] = DatedDoc(0) /\ now = 0
    /\ last.result = Ret(FALSE)

\* two responses agree on the Date header and on every header whose constraint
\* is enabled
AgreeOnEnabledHeaders(a, b) ==
    /\ a.headers /\ b.headers /\ a.date = b.date
    /\ XWarpDriveExpiresOn => a.xWarpDriveExpires = b.xWarpDriveExpires
    /\ CacheControlOn => (a.cacheControl = b.cacheControl /\ a.age = b.age)
    /\ ExpiresOn => a.expires = b.expires

\* C14: two non-invalidated cached responses that differ only in X-WarpDrive-Expires,
\* Expires, Cache-Control or Age headers whose constraint is not enabled get the
\* same answers from isHardExpired and from isSoftExpired.
C14_DisabledConstraintNoInfluence ==
    \A s \in Stores, i \in Ids, j \in Ids :
      (CleanCached(i, s) /\ CleanCached(j, s)
       /\ AgreeOnEnabledHeaders(cache[s][i], cache[s][j]))
      => /\ isHardExpired(i, s) = isHardExpired(j, s)
         /\ isSoftExpired(i, s) = isSoftExpired(j, s)
         /\ (last.op = "isHardExpired" /\ last.store = s /\ last.id = i)
            => last.result = isHardExpired(j, s)
         /\ (last.op = "isSoftExpired" /\ last.store = s /\ last.id = i)
            => last.result = isSoftExpired(j, s)

\* with the Expires constraint disabled, a response whose Expires time has
\* passed was found as fresh as one whose Expires time is still to come
C14_Witness ==
    /\ last.op = "isHardExpired" /\ last.store = "s1" /\ last.id = "d1"
    /\ ~ExpiresOn /\ ~TESTING /\ now = 1000
    /\ cache["s1"]["d1"] = MkDoc(HttpDate(0), Absent, Absent, HttpDate(1000), Absent)
    /\ cache["s1"]["d2"] = MkDoc(HttpDate(0), Absent, Absent, HttpDate(3000), Absent)
    /\ last.result = Ret(FALSE)
    /\ isHardExpired("d2", "s1") = Ret(FALSE)

\* C15: for a non-invalidated identifier whose cached response has no headers,
\* isHardExpired answers true whenever no custom predicate is configured or the
\* predicate answers null, whatever the header constraints, the thresholds, the
\* test environment and the clock.
C15_NoHeadersHardExpired ==
    \A s \in Stores, i \in Ids :
      (CleanCached(i, s) /\ ~cache[s][i].headers /\ PredicateSilent)
      => /\ isHardExpired(i, s) = Ret(TRUE)
         /\ (last.op = "isHardExpired" /\ last.store = s /\ last.id = i)
            => last.result = Ret(TRUE)

\* a response without headers was found hard expired at time 0 under a predicate
\* that answers null and with every header constraint enabled
C15_Witness ==
    /\ last.op = "isHardExpired" /\ last.store = "s1" /\ last.id = "d1"
    /\ "d1" \notin InvalidatedIn("s1")
    /\ config.constraints.isExpired = "alwaysNull"
    /\ XWarpDriveExpiresOn /\ CacheControlOn /\ ExpiresOn
    /\ cache["s1"]["d1"] = NoHeadersDoc /\ now = 0
    /\ last.result = Ret(TRUE)

C17_SoftExpiredWithoutDate ==
    \A s \in Stores, i \in Ids :
      LET doc == cache[s][i]
      IN  (/\ ~TestShortcut
           /\ (~(doc.exists /\ doc.response) \/ ~doc.headers \/ doc.date = Absent))
          => isSoftExpired(i, s) = Ret(TRUE)

\* what isSoftExpired answers by the documentation outside the test shortcut, for
\* a document without a response, one whose headers hold no Date, and one whose
\* Date header reads as an instant
DocumentedSoftVerdict(doc) ==
    IF ~(doc.exists /\ doc.response) THEN Ret(TRUE)
    ELSE IF doc.date = Absent THEN Ret(TRUE)
    ELSE Ret(now >= DateOf(doc) + config.apiCacheSoftExpires)
SoftVerdictDocumented(doc) ==
    ~(doc.exists /\ doc.response) \/ (doc.headers /\ (doc.date = Absent \/ Dated(doc)))

\* C18: in a test environment with disableTestOptimization not set, isSoftExpired
\* answers false for every identifier in every state (no cache entry, no Date
\* header, invalidated identifier included); with disableTestOptimization set it
\* answers in a test environment what it answers outside one.
C18_TestShortcutNeverStale ==
    \A s \in Stores, i \in Ids :
      /\ TestShortcut
         => /\ isSoftExpired(i, s) = Ret(FALSE)
            /\ (last.op = "isSoftExpired" /\ last.store = s /\ last.id = i)
               => last.result = Ret(FALSE)
      /\ (config.disableTestOptimization /\ SoftVerdictDocumented(cache[s][i]))
         => /\ isSoftExpired(i, s) = DocumentedSoftVerdict(cache[s][i])
            /\ (last.op = "isSoftExpired" /\ last.store = s /\ last.id = i)
               => last.result = DocumentedSoftVerdict(cache[s][i])

\* in a test environment without disableTestOptimization, isSoftExpired answered
\* false for an invalidated identifier whose cached response has no Date header
C18_Witness ==
    /\ last.op = "isSoftExpired" /\ last.store = "s1" /\ last.id = "d1"
    /\ TESTING /\ ~config.disableTestOptimization
    /\ "d1" \in InvalidatedIn("s1")
    /\ cache["s1"]["d1"] = MkDoc(Absent, Absent, Absent, Absent, Absent)
    /\ last.result = Ret(FALSE)

\* a verdict of the custom predicate or of a header check is what decides on doc
DecidedBeforeDate(doc) ==
    \/ ~PredicateSilent
    \/ doc.headers
       /\ (\/ XWarpDriveExpiresApplies(doc) \/ CacheControlDecides(doc)
           \/ (CacheControlMissing(doc) /\ ExpiresApplies(doc)))

\* C19: under the test shortcut, when only the Date check applies to a
\* non-invalidated cached response, isHardExpired answers true if and only if
\* now >= Date + apiCacheSoftExpires; a verdict of the custom predicate or of a
\* header constraint is the same in and outside a test environment.
C19_TestThresholdIsSoft ==
    \A s \in Stores, i \in Ids :
      CleanCached(i, s)
      => LET doc == cache[s][i]
         IN  /\ (/\ TestShortcut /\ PredicateSilent /\ Dated(doc)
                 /\ NoConstraintApplies(doc))
                => LET deadline == DateOf(doc) + config.apiCacheSoftExpires
                   IN  /\ isHardExpired(i, s) = Ret(now >= deadline)
                       /\ (last.op = "isHardExpired" /\ last.store = s /\ last.id = i)
                          => last.result = Ret(now >= deadline)
             /\ DecidedBeforeDate(doc)
                => /\ isHardExpired(i, s) = isExpired(doc, config, now, ~TESTING, DEBUG)
                   /\ isHardExpired(i, s)
                        = isExpired(doc, [config EXCEPT !.disableTestOptimization = ~@],
                                    now, TESTING, DEBUG)

\* under the test shortcut a response dated apiCacheSoftExpires ago, still short
\* of apiCacheHardExpires, was found hard expired
C19_Witness ==
    /\ last.op = "isHardExpired" /\ last.store = "s1" /\ last.id = "d1"
    /\ TESTING /\ ~config.disableTestOptimization
    /\ "d1" \notin InvalidatedIn("s1") /\ PredicateSilent
    /\ cache["s1"]["d1"] = DatedDoc(0)
    /\ now = config.apiCacheSoftExpires /\ now < config.apiCacheHardExpires
    /\ last.result = Ret(TRUE)

\* C20: a call of invalidateRequestsForType(type, store) that directly follows a
\* call with the same type and store leaves the store's invalidated set and
\* type-dependency map as the first call left them.
C20_InvalidateForTypeIdempotent ==
    [][(/\ last.op = "invalidateRequestsForType"
        /\ last'.op = "invalidateRequestsForType"
        /\ last'.store = last.store /\ last'.type = last.type)
       => /\ last'.again
          /\ stores' = stores]_vars

\* type t1 was invalidated twice in a row while it had a dependent
C20_Witness ==
    /\ last.op = "invalidateRequestsForType" /\ last.again
    /\ last.store = "s1" /\ last.type = "t1"
    /\ TypeSetIn("s1", "t1") = {"d1"}
    /\ InvalidatedIn("s1") = {"d1"}

\* C21: invalidateRequest(identifier, store) adds the identifier to the store's
\* invalidated set, registered and cached or not, and nothing else: it notifies
\* nothing, leaves the dependency sets, the other identifiers' invalidation and
\* the cache as they were, and a call repeating the one before changes nothing.
C21_InvalidateRequestBookkeeping ==
    [][\A s \in Stores, i \in Ids :
         (last'.op = "invalidateRequest" /\ last'.store = s /\ last'.id = i)
         => /\ InvalidatedIn(s)' = InvalidatedIn(s) \cup {i}
            /\ TypeMapIn(s)' = TypeMapIn(s)
            /\ notified' = Silent
            /\ cache' = cache
            /\ \A o \in Stores \ {s} :
                 InvalidatedIn(o)' = InvalidatedIn(o) /\ TypeMapIn(o)' = TypeMapIn(o)
            /\ last'.again => stores' = stores]_vars

\* an identifier that was never registered nor cached was invalidated twice in a
\* row, next to an identifier that stays registered and not invalidated
C21_Witness ==
    /\ last.op = "invalidateRequest" /\ last.again
    /\ last.store = "s1" /\ last.id = "d1"
    /\ cache["s1"]["d1"] = NoDoc
    /\ \A t \in Types : "d1" \notin TypeSetIn("s1", t)
    /\ TypeSetIn("s1", "t1") = {"d2"}
    /\ InvalidatedIn("s1") = {"d1"}
    /\ notified = Silent

\* C22: no didRequest call both invalidates by type (adds to the invalidated set
\* or notifies 'invalidated') and registers or un-invalidates an identifier: a
\* createRecord call leaves the dependency sets alone and removes nothing from
\* the invalidated set, also when it succeeds and carries an identifier with
\* cacheOptions.types; every other call notifies nothing and adds nothing to the
\* invalidated set.
C22_BranchesExclusive ==
    [][\A s \in Stores :
         (last'.op = "didRequest" /\ last'.store = s)
         => LET invalidates == \/ ~(InvalidatedIn(s)' \subseteq InvalidatedIn(s))
                               \/ notified' # Silent
                registers == \/ TypeMapIn(s)' # TypeMapIn(s)
                             \/ ~(InvalidatedIn(s) \subseteq InvalidatedIn(s)')
            IN  /\ ~(invalidates /\ registers)
                /\ last'.request.op = "createRecord" => ~registers
                /\ last'.request.op # "createRecord" => ~invalidates]_vars

\* a successful createRecord carrying identifier d1 and cacheOptions.types [t2]
\* invalidated the dependent of t2 and did not register d1 for t2
C22_Witness ==
    /\ SuccessfulCreate(last) /\ last.store = "s1" /\ last.id = "d1"
    /\ last.request.types = <<"t2">>
    /\ TypeSetIn("s1", "t2") = {"d2"}
    /\ InvalidatedIn("s1") = {"d2"}
    /\ notified["s1"]["d2"] = 1

\* the types a createRecord request names: those of its records and those of
\* its cacheOptions.types
NamedTypes(request) ==
    Range(ListOf(request.records)) \cup Range(ListOf(request.types))
\* the identifiers registered in store s as dependent on one of types
RegisteredFor(s, types) == UNION {TypeSetIn(s, t) : t \in types}

\* C23: a createRecord invalidates only the identifiers registered, before it, as
\* dependent on one of its types: a successful one adds exactly those to the
\* invalidated set, a failed one adds none; an identifier registered for no type
\* is never added by a createRecord; and a later registration of an identifier
\* for the type adds nothing to the invalidated set.
C23_CreateInvalidatesOnlyRegistered ==
    [][\A s \in Stores :
         (last'.op = "didRequest" /\ last'.store = s)
         => /\ SuccessfulCreate(last')
               => InvalidatedIn(s)' =
                    InvalidatedIn(s) \cup RegisteredFor(s, NamedTypes(last'.request))
            /\ (last'.request.op = "createRecord" /\ ~SuccessfulCreate(last'))
               => InvalidatedIn(s)' = InvalidatedIn(s)
            /\ \A i \in Ids :
                 (/\ last'.request.op = "createRecord"
                  /\ i \notin RegisteredFor(s, Types) /\ i \notin InvalidatedIn(s))
                 => i \notin InvalidatedIn(s)'
            /\ \A i \in Ids :
                 RegisteringCall(last', s, i)
                 => InvalidatedIn(s)' \subseteq InvalidatedIn(s)]_vars

\* a successful createRecord of type t1 invalidated the document registered for
\* t1 and left alone the one that was registered for no type
C23_Witness ==
    /\ SuccessfulCreate(last) /\ last.store = "s1"
    /\ last.request.records = <<"t1">> /\ last.request.types = Absent
    /\ TypeSetIn("s1", "t1") = {"d2"}
    /\ "d1" \notin RegisteredFor("s1", Types)
    /\ InvalidatedIn("s1") = {"d2"}
    /\ notified["s1"]["d1"] = 0 /\ notified["s1"]["d2"] = 1

\* C24: an invalidateRequest, invalidateRequestsForType or didRequest made with
\* one store changes, for every other store, neither its invalidated set, nor
\* its dependency sets, nor what isHardExpired answers for any of its
\* identifiers, and notifies nothing to it.
C24_BookkeepingPerStore ==
    [][\A a \in Stores :
         (/\ last'.op \in {"invalidateRequest", "invalidateRequestsForType", "didRequest"}
          /\ last'.store = a)
         => \A b \in Stores \ {a} :
              /\ InvalidatedIn(b)' = InvalidatedIn(b)
              /\ TypeMapIn(b)' = TypeMapIn(b)
              /\ \A i \in Ids :
                   /\ notified'[b][i] = 0
                   /\ isHardExpired(i, b)' = isHardExpired(i, b)]_vars

\* both stores registered d1 for t1; the type was invalidated in store s1 only,
\* and d1 is hard expired and notified in s1 and neither in s2
C24_Witness ==
    /\ last.op = "invalidateRequestsForType" /\ last.store = "s1" /\ last.type = "t1"
    /\ TypeSetIn("s1", "t1") = {"d1"} /\ TypeSetIn("s2", "t1") = {"d1"}
    /\ InvalidatedIn("s1") = {"d1"} /\ InvalidatedIn("s2") = {}
    /\ notified["s1"]["d1"] = 1 /\ notified["s2"]["d1"] = 0
    /\ isHardExpired("d1", "s1") = Ret(TRUE)
    /\ isHardExpired("d1", "s2") = Ret(FALSE)

\* the config argument is there and both its durations are numbers
WellTypedConfig(arg) ==
    /\ arg.present
    /\ arg.apiCacheSoftExpires[1] = "num" /\ arg.apiCacheHardExpires[1] = "num"

\* C25 as stated: constructing with a missing config or a duration that is not a
\* number fails and yields no policy, so every policy there is has a well-typed
\* config.
C25_ConstructionFails ==
    /\ (last.op = "constructor" /\ ~WellTypedConfig(last.arg))
       => (last.result = Throw /\ config = NotConstructed)
    /\ config # NotConstructed => WellTypedConfig(config)

\* C25: in a debug build, constructing with a missing config or a duration that
\* is not a number throws and yields no policy, so every policy there is has a
\* well-typed config; in any other build the constructor never throws and the
\* policy holds the config it was given, whatever that is; a well-typed config
\* constructs a policy in every build.
C25_ConstructionFailsInDebug ==
    /\ last.op = "constructor"
       => IF DEBUG /\ ~WellTypedConfig(last.arg)
          THEN last.result = Throw /\ config = NotConstructed
          ELSE last.result = Ret(TRUE) /\ config = last.arg
    /\ (DEBUG /\ config # NotConstructed) => WellTypedConfig(config)

\* in a debug build, a config whose apiCacheHardExpires is a string was refused
C25_Witness ==
    /\ DEBUG /\ last.op = "constructor"
    /\ last.arg = MkConfigArg(Num(1000), Str(2000))
    /\ last.result = Throw
    /\ config = NotConstructed

\* a directive is a flag, or a numeric directive whose value is String(n)
DecimalDirective(d, n) == d.key \in NUMERIC_KEYS /\ d.value = ToDecimal(n)
WellFormedDirective(d) ==
    \/ d.key \notin NUMERIC_KEYS /\ d.value = Absent
    \/ \E n \in 0..MaxDirectiveValue : DecimalDirective(d, n)
\* the last call parsed a header written without any whitespace
ParsedBare ==
    /\ last.op = "parseCacheControl"
    /\ last.header = Render(last.directives, 0, <<>>)
\* the parsed object holds value v for the key of directive d
Holds(parsed, d, v) ==
    ~parsed.threw /\ d.key \in DOMAIN parsed.obj /\ parsed.obj[d.key] = v

\* C26: for every n >= 0, parsing 'max-age=n' (likewise s-maxage, stale-if-error
\* and stale-while-revalidate) gives an object whose field of that name is
\* exactly n, also when the directive stands among other well-formed directives.
C26_NumericRoundTrip ==
    (ParsedBare /\ \A j \in DOMAIN last.directives :
                     WellFormedDirective(last.directives[j]))
    => \A j \in DOMAIN last.directives, n \in 0..MaxDirectiveValue :
         DecimalDirective(last.directives[j], n)
         => Holds(last.parsed, last.directives[j], Num(n))

\* 'max-age=25,s-maxage=3,private' was parsed, in a debug build, to max-age 25
C26_Witness ==
    /\ ParsedBare /\ DEBUG
    /\ last.directives =
         <<Directive(KeyMaxAge, <<"2", "5">>), Directive(KeySMaxAge, <<"3">>), Private>>
    /\ last.parsed.obj[KeyMaxAge] = Num(25)
    /\ last.parsed.obj[KeySMaxAge] = Num(3)

\* directive d has a numeric key and a value that reads as no number or as a
\* negative one
BadDirective(d) == d.key \in NUMERIC_KEYS /\ d.value \in BadValues
\* every well-formed directive of the parsed header has its normal value
OthersParsed(parsed, ds) ==
    \A k \in DOMAIN ds :
      /\ (ds[k].key \notin NUMERIC_KEYS /\ ds[k].value = Absent)
         => Holds(parsed, ds[k], JsTrue)
      /\ \A n \in 0..MaxDirectiveValue :
           DecimalDirective(ds[k], n) => Holds(parsed, ds[k], Num(n))

C28_WhitespaceIgnored ==
    (/\ last.op = "parseCacheControl"
     /\ \A j \in DOMAIN last.directives : WellFormedDirective(last.directives[j]))
    => /\ last.parsed = parseCacheControl(Render(last.directives, 0, <<>>), DEBUG)
       /\ OthersParsed(last.parsed, last.directives)

\* two record tokens stand for the same resource, and a key has two document tokens
SameResource(a, b) ==
    /\ a.type = b.type
    /\ a.id # NullId
    /\ a.id = b.id
TokensOfKey(key) ==
    {d \in DOMAIN identity.documentIdentifiers :
        identity.documentIdentifiers[d] = key}
\* no two live record tokens share a type and id or a lid, and no document key has
\* two tokens
OneTokenPerIdentity ==
    /\ \A a, b \in Live(identity) :
          a # b => /\ ~SameResource(identity.identifiers[a], identity.identifiers[b])
                   /\ identity.identifiers[a].lid # identity.identifiers[b].lid
    /\ \A d, e \in DOMAIN identity.documentIdentifiers :
          d # e => identity.documentIdentifiers[d] # identity.documentIdentifiers[e]
\* the resource of a lookup is known to the cache by its lid or by its type and id
KnownByLid(r) == r.lid # NoLid /\ r.lid \in DOMAIN identity.resources
KnownByTypeAndId(r) ==
    \E k \in Live(identity) :
        SameResource(identity.identifiers[k], [type |-> r.type, id |-> r.id])
\* two successive lookups name the same resource: by the same data with a lid or
\* an id in it (the same lid, the same type and id), or by a lid the cache knows
\* whatever else the data holds
SameLookup(r, q) ==
    \/ r = q /\ (r.lid # NoLid \/ r.id # NullId)
    \/ r.lid = q.lid /\ KnownByLid(r)
\* a lookup that follows a lookup of the same resource returns the same token
RepeatedLookupSameToken ==
    (/\ last.op = "getOrCreateRecordIdentifier"
     /\ last'.op = "getOrCreateRecordIdentifier"
     /\ SameLookup(last.resource, last'.resource))
    => last'.token = last.token
RepeatedDocumentLookupSameToken ==
    (/\ last.op = "getOrCreateDocumentIdentifier"
     /\ last'.op = "getOrCreateDocumentIdentifier"
     /\ last.key # NoKey
     /\ last'.key = last.key)
    => last'.token = last.token
\* a lookup calls the generation strategy only for a resource the cache does not
\* know by lid or by type and id
GenerateOnlyWhenUnknown ==
    (last'.op = "getOrCreateRecordIdentifier" /\ last'.generated)
    => /\ ~KnownByLid(last'.resource)
       /\ ~KnownByTypeAndId(last'.resource)

IdBefore(token) == identity.identifiers[token].id
\* no step changes the id of a token except from null to a value
IdAssignedOnce ==
    \A k \in DOMAIN identity.identifiers :
        identity'.identifiers[k].id # IdBefore(k)
        => IdBefore(k) = NullId /\ identity'.identifiers[k].id # NullId
\* an update with another id than the one the token has, or without an id for a
\* token that has none, throws, changes nothing and calls no strategy
RefusedUpdateFails ==
    (/\ last'.op = "updateRecordIdentifier"
     /\ \/ /\ IdBefore(last'.token) # NullId
           /\ last'.resource.id # NullId
           /\ last'.resource.id # IdBefore(last'.token)
        \/ IdBefore(last'.token) = NullId /\ last'.resource.id = NullId)
    => /\ last'.result = Throw
       /\ ~last'.invoked
       /\ identity' = identity
\* an update that gives an id to a token without one returns, and its strategy is
\* called with the token already carrying that id
AssignedBeforeStrategy ==
    (/\ last'.op = "updateRecordIdentifier"
     /\ IdBefore(last'.token) = NullId
     /\ last'.resource.id # NullId)
    => /\ last'.result = Ret(TRUE)
       /\ last'.invoked
       /\ last'.seen = last'.resource.id
       /\ identity'.identifiers[last'.token].id = last'.resource.id

\* C30: the id of a record token changes at most once, from null to a value: an
\* update that supplies another non-null id for a token whose id is assigned, or
\* no id for a token that has none, fails with an error and changes nothing; an
\* id supplied for a token without one is assigned to it before the update
\* strategy is called.
C30_IdAssignedOnce ==
    [][IdAssignedOnce /\ RefusedUpdateFails /\ AssignedBeforeStrategy]_vars
\* an update gave its id to a token made for a new record, the strategy saw the
\* token with that id, and the cache has released a token
C30_Witness ==
    /\ last.op = "updateRecordIdentifier"
    /\ last.result = Ret(TRUE)
    /\ last.invoked
    /\ last.resource.id # NullId
    /\ last.seen = last.resource.id
    /\ identity.identifiers[last.token].id = last.resource.id
    /\ identity.identifiers[last.token].lid.kind = "new"
    /\ identity.released # {}

\* the key of the document token a lookup returned (null: it returned no token)
KeyOfToken(token) ==
    IF token = 0 THEN NoKey ELSE identity.documentIdentifiers[token]

\* C31: the document of a request is cached under cacheOptions.key when the
\* request has one, and the generation strategy is then not called; otherwise
\* the default strategy is called and the document is cached under the url when
\* the method is absent or GET, and not cached (no token, no table entry) for
\* every other method.
C31_DocumentCacheKey ==
    last.op = "getOrCreateDocumentIdentifier"
    => /\ last.generated <=> (last.info.key = NoKey)
       /\ last.info.key # NoKey => KeyOfToken(last.token) = last.info.key
       /\ (last.info.key = NoKey /\ last.info.method \in {"none", "GET"})
             => KeyOfToken(last.token) = last.info.url
       /\ (last.info.key = NoKey /\ last.info.method \notin {"none", "GET"})
             => last.token = 0
       /\ last.token # 0 => identity.documents[KeyOfToken(last.token)] = last.token
\* a POST request was given a token under its explicit key while the cache holds
\* the token of a request cached under its url
C31_Witness ==
    /\ last.op = "getOrCreateDocumentIdentifier"
    /\ last.info.method = "POST"
    /\ last.info.key # NoKey
    /\ last.token # 0
    /\ KeyOfToken(last.token) = last.info.key
    /\ \E d \in DOMAIN identity.documentIdentifiers :
          identity.documentIdentifiers[d] = last.info.url

\* C32: a call of isHardExpired or isSoftExpired changes neither the invalidated
\* set nor the type-dependency map of any store, nor the content cache, nor the
\* clock, notifies nothing, and leaves the answer of every hard and soft query as
\* it was before the call (the record _getStore makes for a store that has none
\* is empty).
C32_QueriesArePure ==
    [][last'.op \in {"isHardExpired", "isSoftExpired"}
       => /\ \A s \in Stores :
               /\ InvalidatedIn(s)' = InvalidatedIn(s)
               /\ TypeMapIn(s)' = TypeMapIn(s)
          /\ cache' = cache
          /\ now' = now
          /\ notified' = Silent
          /\ \A i \in Ids :
               /\ isHardExpired(i, "s1")' = isHardExpired(i, "s1")
               /\ isSoftExpired(i, "s1")' = isSoftExpired(i, "s1")]_vars
\* isSoftExpired was asked about a cached, registered and invalidated identifier,
\* which stays hard expired after the call
C32_Witness ==
    /\ last.op = "isSoftExpired" /\ last.store = "s1" /\ last.id = "d1"
    /\ cache["s1"]["d1"] = DatedDoc(0)
    /\ "d1" \in InvalidatedIn("s1")
    /\ "d1" \in TypeSetIn("s1", "t1")
    /\ isHardExpired("d1", "s1") = Ret(TRUE)
    /\ isHardExpired("d2", "s1") = Ret(TRUE)

\* the step updates the cache entry of i or is a didRequest that registers i
UpdatesOrRegisters(i, s) ==
    \/ cache'[s][i] # cache[s][i]
    \/ /\ last'.op = "didRequest" /\ last'.store = s /\ last'.id = i
       /\ \E t \in Types : i \in TypeSetIn(s, t)'

\* the answers of isHardExpired and isSoftExpired about i in s when the cache is
\* c, the store records are st and the clock stands at t
HardWith(c, st, t, i, s) ==
    IF s \in DOMAIN st /\ i \in st[s].invalidated THEN Ret(TRUE)
    ELSE IF ~(c[s][i].exists /\ c[s][i].response) THEN Ret(TRUE)
    ELSE isExpired(c[s][i], config, t, TESTING, DEBUG)
SoftWith(c, t, i, s) ==
    IF TESTING /\ ~config.disableTestOptimization THEN Ret(FALSE)
    ELSE IF ~(c[s][i].exists /\ c[s][i].response) THEN Ret(TRUE)
    ELSE IF ~c[s][i].headers THEN Throw
    ELSE IF ~TruthyStr(c[s][i].date) THEN Ret(TRUE)
    ELSE Ret(Geq(Num(t), Add(DateGetTime(c[s][i].date),
                             Num(config.apiCacheSoftExpires))))
\* they are the answers of the queries in the current state
AnswersOfQueries ==
    \A i \in Ids :
        /\ HardWith(cache, stores, now, i, "s1") = isHardExpired(i, "s1")
        /\ SoftWith(cache, now, i, "s1") = isSoftExpired(i, "s1")

\* C33: under a policy without a custom predicate, an identifier whose hard
\* (soft) query answers true keeps that answer through every step, whatever
\* time passes, except a step that updates its cache entry or is a didRequest
\* registering it: only those take an answer from expired back to not expired.
C33_ExpirationMonotone ==
    /\ []AnswersOfQueries
    /\ [][\A i \in Ids :
            (config.constraints.isExpired = "none" /\ ~UpdatesOrRegisters(i, "s1"))
            => /\ now' >= now
               /\ HardWith(cache, stores, now, i, "s1") = Ret(TRUE)
                    => HardWith(cache', stores', now', i, "s1") = Ret(TRUE)
               /\ SoftWith(cache, now, i, "s1") = Ret(TRUE)
                    => SoftWith(cache', now', i, "s1") = Ret(TRUE)]_vars
\* time has passed the hard deadline of a response dated 0 that was fresh when
\* the clock stood at 0: both queries answer true with the entry unchanged
C33_Witness ==
    /\ config.constraints.isExpired = "none"
    /\ ~TESTING
    /\ last = NoCall
    /\ cache["s1"]["d1"] = DatedDoc(0)
    /\ "d1" \notin InvalidatedIn("s1")
    /\ now > config.apiCacheHardExpires
    /\ isHardExpired("d1", "s1") = Ret(TRUE)
    /\ isSoftExpired("d1", "s1") = Ret(TRUE)

\* the times the headers of doc give that can be parsed, and the longest
\* lifetime the policy or a max-age or s-maxage directive of doc grants, in ms
ParseableTimes(doc) ==
    {DateGetTime(v)[2] : v \in {w \in {doc.date, doc.expires, doc.xWarpDriveExpires} :
                                   ~IsNaN(DateGetTime(w))}}
LongestLifetime(doc) ==
    LET granted ==
          {config.apiCacheHardExpires, config.apiCacheSoftExpires}
          \cup (IF doc.cacheControl = Absent THEN {}
                ELSE {DirectivesOf(doc)[k][2] * MsPerSecond :
                         k \in {KeyMaxAge, KeySMaxAge} \cap DOMAIN DirectivesOf(doc)})
    IN  CHOOSE m \in granted : \A n \in granted : m >= n
\* the clock has advanced as far as it goes, past every time the headers give by
\* more than any lifetime
ClockPastEveryDeadline(doc) ==
    /\ now = MaxClock
    /\ \A t \in ParseableTimes(doc) : now >= t + LongestLifetime(doc)

\* C34: under a policy without a custom predicate, in a production build, once
\* the clock has advanced past every deadline the parseable headers of a cached
\* response can give, isHardExpired answers true for it, also when its Date,
\* Expires or X-WarpDrive-Expires header cannot be parsed as a time: no
\* response stays fresh forever.
C34_EventuallyHardExpired ==
    \A i \in Ids :
      LET doc == cache["s1"][i]
      IN  (/\ config.constraints.isExpired = "none"
           /\ ~DEBUG
           /\ doc.exists /\ doc.response /\ doc.headers
           /\ ClockPastEveryDeadline(doc))
          => isHardExpired(i, "s1") = Ret(TRUE)

\* C35: when notify(id, 'invalidated') is delivered in invalidateRequestsForType,
\* id is in the invalidated set of the store, and a subscriber that calls
\* isHardExpired(id, store) from the notification is answered true.
C35_InvalidatedBeforeNotified ==
    last.op = "notify"
    => /\ last.id \in InvalidatedIn(last.store)
       /\ last.result = Ret(TRUE)
\* the second of two dependents of a type was notified, both cached and fresh,
\* and the subscriber was answered true
C35_Witness ==
    /\ last.op = "notify" /\ last.store = "s1" /\ last.id = "d2"
    /\ last.pc = 0
    /\ notified["s1"] = [i \in Ids |-> 1]
    /\ cache["s1"]["d2"] = DatedDoc(0)
    /\ isExpired(cache["s1"]["d2"], config, now, TESTING, DEBUG) = Ret(FALSE)
    /\ last.result = Ret(TRUE)

\* C36: outside the test shortcut, with apiCacheSoftExpires <= apiCacheHardExpires
\* and no constraints configured, for every identifier that is not invalidated
\* and every cache state (no entry, no response, no headers, no Date header, any
\* Date value), isSoftExpired answers true whenever isHardExpired answers true.
C36_HardImpliesSoft ==
    \A i \in Ids :
      (/\ ~TestShortcut /\ NoConstraints
       /\ config.apiCacheSoftExpires <= config.apiCacheHardExpires
       /\ i \notin InvalidatedIn("s1")
       /\ isHardExpired(i, "s1") = Ret(TRUE))
      => isSoftExpired(i, "s1") = Ret(TRUE)

\* C37: no call removes an identifier from the dependency set of a type: every
\* didRequest (also one for the same identifier that lists other types),
\* invalidateRequest, invalidateRequestsForType, isHardExpired and isSoftExpired
\* call leaves every registered dependency in place, so that a successful
\* createRecord of a type invalidates every identifier ever registered for it.
C37_DependenciesKept ==
    [][\A s \in Stores, t \in Types :
         /\ TypeSetIn(s, t) \subseteq TypeSetIn(s, t)'
         /\ (/\ last'.op = "didRequest" /\ last'.store = s
              /\ IsCreate(last'.request) /\ StatusOk(last'.response)
              /\ t \in CreatedTypes(last'.request))
             => TypeSetIn(s, t) \subseteq InvalidatedIn(s)']_vars
\* d1, registered for t1 together with d2, was registered again with t2 as the
\* only type and still depends on t1
C37_Witness ==
    /\ last.op = "didRequest" /\ last.store = "s1" /\ last.id = "d1"
    /\ ~IsCreate(last.request)
    /\ last.request.types = <<"t2">>
    /\ TypeSetIn("s1", "t1") = {"d1", "d2"}
    /\ "d1" \in TypeSetIn("s1", "t2")

=============================================================================
